---- MODULE Spec2Model ----
(***************************************************************************)
(* Byte-level model of the image-packer codecs of UEFI-Binary-Tool.        *)
(*                                                                         *)
(* Format A (ASUS): AsusImageRepacker of src/asus/repacker/                 *)
(* asus_repacker.py: the container scanner, the change detection and the   *)
(* two rebuild strategies (direct replace, structure preserving rebuild).  *)
(* Format B (MSI): MSIFileAnalyzer._find_msi_entries and MSIImageRepacker. *)
(*                                                                         *)
(* A buffer is a sequence of bytes (0..255).  Python offsets are 0-based;  *)
(* Slice(d, a, b) is d[a:b].                                               *)
(***************************************************************************)
EXTENDS Integers, Sequences, FiniteSets, TLC

\* ------------------------------------------------------------------------
\* Bounds of the model
\* ------------------------------------------------------------------------

\* payload sizes of the generated format A hosts range over 3..MaxSize
MaxSize == 5

\* a candidate grows or shrinks its payload by 1..MaxDelta bytes
MaxDelta == 1

\* ------------------------------------------------------------------------
\* Byte helpers (Python slicing, struct.pack / struct.unpack)
\* ------------------------------------------------------------------------

Min2(a, b) == IF a <= b THEN a ELSE b

\* d[a:b] for 0 <= a
Slice(d, a, b) == SubSeq(d, a + 1, Min2(b, Len(d)))

\* struct.pack('<I', n)
PackLE32(n) ==
    << n % 256, (n \div 256) % 256, (n \div 65536) % 256, (n \div 16777216) % 256 >>

\* struct.unpack('<I', b)[0]
UnpackLE32(b) == b[1] + 256 * b[2] + 65536 * b[3] + 16777216 * b[4]

\* b'\x00' * n
Zeros(n) == [i \in 1..n |-> 0]

SetMin(S) == CHOOSE x \in S : \A y \in S : x <= y

SetMax(S) == CHOOSE x \in S : \A y \in S : x >= y

\* ------------------------------------------------------------------------
\* Format A constants
\* ------------------------------------------------------------------------

\* asus_pattern: the 32-byte container signature
AsusSignature ==
    << 0, 0, 0, 0, 32, 0, 0, 0, 255, 255, 0, 0, 255, 255, 0, 0,
       0, 0, 0, 0, 0, 0, 0, 0, 0, 0, 0, 0, 0, 0, 0, 0 >>

\* expected_pattern: the 16 bytes that must precede a payload
ExpectedPattern == << 0, 0, 0, 0, 48, 0, 9, 4, 0, 0, 0, 0, 0, 0, 0, 0 >>

\* the fallback special patterns of the rebuild (first image / later images)
DefaultPatternFirst == << 255, 255, 10, 0, 255, 255, 0, 64 >> \o ExpectedPattern

DefaultPatternOther == << 0, 255, 255, 10, 0, 255, 255, 2 >> \o ExpectedPattern

\* bytes of metadata the cursor skips per image
MetadataLen == 32

\* the relative offset the rebuild writes into every record
FixedRelOffset == 32

\* a scanner that expects no padding after a payload
ScanPaddingMutNone(isize) == 0

\* line 110: padding = (4 - (isize % 4)) % 4
ScanPadding(isize) == (4 - (isize % 4)) % 4

\* a padding without the outer "% 4": 4 bytes after an aligned payload
RebuildPaddingMutNoWrap(n) == 4 - (n % 4)

\* line 406: padding = (4 - (len(img_data) % 4)) % 4
RebuildPadding(n) == (4 - (n % 4)) % 4

\* ------------------------------------------------------------------------
\* detect_asus_image_type
\* ------------------------------------------------------------------------

detect_asus_image_type(img) ==
    IF Len(img) < 4 THEN "img"
    ELSE IF img[1] = 66 /\ img[2] = 77 THEN "bmp"
    ELSE IF img[1] = 255 /\ img[2] = 216 /\ img[3] = 255 THEN "jpg"
    ELSE IF SubSeq(img, 1, 4) = << 137, 80, 78, 71 >> THEN "png"
    ELSE IF SubSeq(img, 1, 4) = << 71, 73, 70, 56 >> THEN "gif"
    ELSE IF SubSeq(img, 1, 4) = << 0, 0, 1, 0 >> \/ SubSeq(img, 1, 4) = << 0, 0, 2, 0 >>
         THEN "ico"
    ELSE "img"

\* ------------------------------------------------------------------------
\* detect_asus_packer_format: the container scanner
\* ------------------------------------------------------------------------

\* asus_pattern.search(data, position): start of the leftmost match at or
\* after position, -1 when there is none
SearchSignature(d, position) ==
    LET hits == { p \in position..(Len(d) - 32) :
                    /\ d[p + 5] = 32
                    /\ Slice(d, p, p + 32) = AsusSignature }
    IN  IF hits = {} THEN -1 ELSE SetMin(hits)

\* a bounds test that lets every image through
ImageFitsMutAlways(d, img_end) == TRUE

\* lines 81-82: the image ends inside the buffer
ImageFits(d, img_end) == ~(img_end > Len(d))

\* a sentinel test that never ends the loop
SentinelStopsMutNever(d, check_offset) == FALSE

\* lines 71-76: the 16 bytes before the payload, when they lie inside the
\* buffer, differ from the expected pattern
SentinelStops(d, check_offset) ==
    /\ check_offset >= 0
    /\ check_offset + 16 <= Len(d)
    /\ Slice(d, check_offset, check_offset + 16) # ExpectedPattern

\* the inner while loop: the images decoded from cursor head on, and the
\* final cursor
RECURSIVE ParseImages(_, _, _)
ParseImages(d, head, images) ==
    IF head + 8 > Len(d) THEN [images |-> images, head |-> head]
    ELSE
      LET isize == UnpackLE32(Slice(d, head, head + 4))
          ioffs == UnpackLE32(Slice(d, head + 4, head + 8))
          check_offset == head + ioffs - 16
          img_start == head + ioffs
          img_end == img_start + isize
          img_data == Slice(d, img_start, img_end)
      IN  IF isize = 0 \/ ioffs = 0 THEN [images |-> images, head |-> head]
          ELSE IF SentinelStops(d, check_offset)
               THEN [images |-> images, head |-> head]
          ELSE IF ~ImageFits(d, img_end) THEN [images |-> images, head |-> head]
          ELSE ParseImages(d, head + MetadataLen + isize + ScanPadding(isize),
                 Append(images,
                   [ number |-> Len(images) + 1,
                     type |-> detect_asus_image_type(img_data),
                     size |-> isize,
                     offset_in_package |-> ioffs,
                     absolute_offset |-> img_start,
                     data |-> img_data,
                     metadata_offset |-> head,
                     special_pattern |-> Slice(d, head + 8, head + 32) ]))

\* the outer while loop
RECURSIVE ScanPackages(_, _, _)
ScanPackages(d, position, packages) ==
    LET start_match == SearchSignature(d, position)
    IN  IF start_match = -1 THEN packages
        ELSE LET r == ParseImages(d, start_match + 32, << >>)
             IN  ScanPackages(d, r.head,
                   Append(packages,
                     [ header_offset |-> start_match,
                       header_end |-> start_match + 32,
                       images |-> r.images,
                       total_size |-> r.head - start_match ]))

detect_asus_packer_format(d) == ScanPackages(d, 0, << >>)

\* ------------------------------------------------------------------------
\* Input files: the host buffers the runs are started on
\* ------------------------------------------------------------------------

Sizes == 3..MaxSize

\* bytes that round n up to a multiple of 4
PadTo4(n) == (4 - (n % 4)) % 4

\* payload of the image in slot 1 (starts like a BMP) or slot 2 (like a PNG)
PayloadOf(slot, n) ==
    LET magic == IF slot = 1 THEN << 66, 77, 1, 2 >> ELSE << 137, 80, 78, 71 >>
    IN  [i \in 1..n |-> IF i <= 4 THEN magic[i] ELSE 16 * slot + i]

\* the first 8 bytes of the 24-byte special pattern of a stored record
Pat8(slot) == [i \in 1..8 |-> 160 + 16 * slot + i]

\* a record as the vendor tool writes it: rel_offset 0x20, padded with padbyte
NormalEntry(slot, n, padbyte) ==
    PackLE32(n) \o PackLE32(32) \o Pat8(slot) \o ExpectedPattern
      \o PayloadOf(slot, n) \o [i \in 1..PadTo4(n) |-> padbyte]

\* a record whose rel_offset is 24: the sentinel stands at head+8, the
\* payload at head+24 and the file ends with the payload
ShortEntry(slot, n) ==
    PackLE32(n) \o PackLE32(24) \o ExpectedPattern \o PayloadOf(slot, n)

\* a record whose rel_offset is 48: the sentinel stands at head+32, the
\* payload at head+48
FarEntry(slot, n) ==
    PackLE32(n) \o PackLE32(48) \o Pat8(slot) \o ExpectedPattern
      \o ExpectedPattern \o PayloadOf(slot, n) \o << 193, 194, 195, 196 >>

\* a record whose rel_offset points at the payload of the record after it
AliasEntry(slot, n) ==
    PackLE32(n) \o PackLE32(64 + n + PadTo4(n)) \o Pat8(slot) \o ExpectedPattern
      \o PayloadOf(slot, n) \o Zeros(PadTo4(n))

Shapes ==
    { "plain", "twopkg", "dirtypad", "trunc", "short", "far", "alias", "framed" }

HostOf(shape, s1, s2) ==
    CASE shape = "plain" ->
           << 90 >> \o AsusSignature \o NormalEntry(1, s1, 0) \o NormalEntry(2, s2, 0)
             \o << 161, 162 >>
      [] shape = "twopkg" ->
           AsusSignature \o NormalEntry(1, s1, 0) \o << 193 >>
             \o AsusSignature \o NormalEntry(2, s2, 0)
      [] shape = "dirtypad" ->
           AsusSignature \o NormalEntry(1, s1, 238) \o NormalEntry(2, s2, 238)
             \o Zeros(8)
      [] shape = "trunc" ->
           AsusSignature \o NormalEntry(1, s1, 0) \o PackLE32(s2) \o PackLE32(32)
             \o Pat8(2) \o ExpectedPattern \o PayloadOf(2, s2)
      [] shape = "short" ->
           AsusSignature \o NormalEntry(1, s1, 0) \o ShortEntry(2, s2)
      [] shape = "far" ->
           AsusSignature \o NormalEntry(1, s1, 0) \o FarEntry(2, s2)
      [] shape = "alias" ->
           AsusSignature \o AliasEntry(1, s1) \o NormalEntry(2, s2, 0) \o << 161 >>
      [] shape = "framed" ->
           << 90, 91 >> \o AsusSignature \o NormalEntry(1, s1, 0) \o << 193, 194 >>
             \o AsusSignature \o NormalEntry(2, s2, 0) \o << 161, 162, 163 >>

\* a file that holds no container
NoContainerHost == << 1, 2, 3 >>

Hosts == { HostOf(sh, s1, s2) : sh \in Shapes, s1 \in Sizes, s2 \in Sizes }
           \cup { NoContainerHost }

\* ------------------------------------------------------------------------
\* Replacement candidates: the files of the extraction directory
\* ------------------------------------------------------------------------

\* f"image_nr{number}_off0x{abs_offset:08x}.{type}"
FileName(image) == << image.number, image.absolute_offset, image.type >>

CandKinds ==
    { [k |-> "none", d |-> 0], [k |-> "same", d |-> 0], [k |-> "eq", d |-> 0],
      [k |-> "mism", d |-> 0] }
      \cup { [k |-> "grow", d |-> d] : d \in 1..MaxDelta }
      \cup { [k |-> "shrink", d |-> d] : d \in 1..MaxDelta }

\* the bytes a user left in the file of an image
CandBytes(image, kind) ==
    LET p == image.data
        n == Len(p)
    IN  CASE kind.k = "same" -> p
          [] kind.k = "eq" -> [i \in 1..n |-> IF i = n THEN 127 ELSE p[i]]
          [] kind.k = "grow" -> p \o [i \in 1..kind.d |-> 127]
          [] kind.k = "shrink" -> SubSeq(p, 1, n - kind.d)
          [] kind.k = "mism" ->
               [i \in 1..(IF n < 4 THEN 4 ELSE n) |->
                  IF i <= 4 THEN << 255, 216, 255, 224 >>[i] ELSE 200 + i]

\* all (package index, image) pairs of a scan, in scan order
RECURSIVE Flatten(_, _)
Flatten(packages, i) ==
    IF i > Len(packages) THEN << >>
    ELSE [j \in 1..Len(packages[i].images) |->
            [pkg_idx |-> i, image |-> packages[i].images[j]]]
         \o Flatten(packages, i + 1)

\* the directory contents for one choice of candidate per image
FilesFor(entries, choice) ==
    { [dir |-> entries[e].pkg_idx,
       name |-> FileName(entries[e].image),
       bytes |-> CandBytes(entries[e].image, choice[e])] :
      e \in { x \in 1..Len(entries) :
                /\ choice[x].k # "none"
                /\ choice[x].k = "shrink" => Len(entries[x].image.data) > choice[x].d } }

\* os.path.exists(filepath)
FileExists(fs, dir, name) == \E f \in fs : f.dir = dir /\ f.name = name

\* open(filepath, 'rb').read()
ReadFile(fs, dir, name) == (CHOOSE f \in fs : f.dir = dir /\ f.name = name).bytes

\* ------------------------------------------------------------------------
\* State
\* ------------------------------------------------------------------------

VARIABLES
    data,                 \* self.data: the host buffer
    extracted_dir_exists, \* os.path.exists(extracted_dir)
    pkg_dirs,             \* the asus_pack_<i> directories that exist
    files,                \* the candidate files
    pc,                   \* position of the run
    original_packages,    \* result of detect_asus_packer_format
    modified_images,      \* dict abs_offset -> info
    modified_count,
    unchanged_count,
    strategy,             \* "none", "copy", "direct", "structural"
    new_data,             \* the output buffer
    current_pos,
    cur_pkg,              \* loop index over original_packages
    cur_img,              \* loop index over sorted_images
    emitted,              \* where each record of the rebuild was written
    out_marks,            \* where each container of the rebuild was written
    result                \* return value of rebuild_asus_packer_preserve_structure

\* state of one run of MSIImageRepacker.repack_from_directory
VARIABLES
    msi_host,             \* the bytes of the original MSI file
    msi_original_file,    \* original_file is given and exists
    msi_analysis,         \* original_analysis: [given, msi_entries]
    msi_input_dir,        \* "missing", "pack" (holds an MSI_pack dir), "flat"
    msi_files,            \* image files of the directory that is read
    msi_metadata,         \* msi_structure_info.txt: [present, entries]
    msi_pc,               \* position of the run
    msi_modified,         \* result of the change detection
    msi_structure_info,   \* structure_info: [present, entries]
    msi_image_files,      \* image_files, sorted
    msi_i,                \* loop index of the binary creation
    msi_out,              \* bytes of the output file
    msi_out_exists,       \* the output file has been created
    msi_total_size,       \* total_size of the binary creation
    msi_result            \* return value of repack_from_directory

msi_inputs == << msi_host, msi_original_file, msi_analysis, msi_input_dir,
                 msi_files, msi_metadata >>

msi_vars == << msi_inputs, msi_pc, msi_modified, msi_structure_info,
               msi_image_files, msi_i, msi_out, msi_out_exists,
               msi_total_size, msi_result >>

asus_vars == << data, extracted_dir_exists, pkg_dirs, files, pc, original_packages,
                modified_images, modified_count, unchanged_count, strategy, new_data,
                current_pos, cur_pkg, cur_img, emitted, out_marks, result >>

\* state of AsusFileAnalyzer on a loaded file
VARIABLES
    an_data,              \* self.data of the analyzer
    an_pc,                \* position of the analysis
    an_embedded,          \* embedded_files of analyze_embedded_files
    an_png                \* what analyze_png_details reads for each PNG

an_vars == << an_data, an_pc, an_embedded, an_png >>

\* state of one call of repack_mode of asus_main
VARIABLES
    main_entry,           \* "menu" (interactive option 2) or "cli"
    main_argv,            \* sys.argv[1:], files named by what they are
    main_default_file,    \* the default file of get_target_file exists
    main_user_file,       \* answer to the file prompt
    main_default_dir,     \* the default extraction directory exists
    main_user_dir,        \* answer to the directory prompt
    main_user_out,        \* answer to the output name prompt
    main_repack_ok,       \* what run_repack returns when it is called
    main_pc,              \* position of the call
    main_target,          \* target_file
    main_dir,             \* extracted_dir
    main_called,          \* run_repack has been called
    main_raised,          \* the except branch of repack_mode was taken
    main_result           \* return value of repack_mode

main_inputs == << main_entry, main_argv, main_default_file, main_user_file,
                  main_default_dir, main_user_dir, main_user_out, main_repack_ok >>

main_vars == << main_inputs, main_pc, main_target, main_dir, main_called,
                main_raised, main_result >>

\* the loop variables of the two scanners: position, start_match, head,
\* images and asus_packages of detect_asus_packer_format, offset and
\* entries of _find_msi_entries
VARIABLES scan_position, scan_start_match, scan_head, scan_images, scan_packages,
          scan_offset, scan_entries

scan_vars == << scan_position, scan_start_match, scan_head, scan_images, scan_packages,
                scan_offset, scan_entries >>

other_vars == << an_vars, main_vars, scan_vars >>

vars == << asus_vars, msi_vars, other_vars >>

inputs == << data, extracted_dir_exists, pkg_dirs, files >>

rebuild_vars == << new_data, current_pos, cur_pkg, cur_img, emitted, out_marks >>

\* the empty dict
EmptyDict == [o \in {} |-> 0]

\* no analysis is under way
AnIdle ==
    /\ an_data = << >>
    /\ an_pc = "idle"
    /\ an_embedded = << >>
    /\ an_png = << >>

\* asus_main is not running
MainIdle ==
    /\ main_entry = "none"
    /\ main_argv = << >>
    /\ main_default_file = FALSE
    /\ main_user_file = ""
    /\ main_default_dir = FALSE
    /\ main_user_dir = ""
    /\ main_user_out = ""
    /\ main_repack_ok = FALSE
    /\ main_pc = "idle"
    /\ main_target = "None"
    /\ main_dir = "None"
    /\ main_called = FALSE
    /\ main_raised = FALSE
    /\ main_result = "running"

\* no scanner is inside its loops
ScanIdle ==
    /\ scan_position = 0
    /\ scan_start_match = 0
    /\ scan_head = 0
    /\ scan_images = << >>
    /\ scan_packages = << >>
    /\ scan_offset = 0
    /\ scan_entries = << >>

OtherIdle == AnIdle /\ MainIdle /\ ScanIdle

\* no run of the format B repacker is under way
MsiIdle ==
    /\ msi_host = << >>
    /\ msi_original_file = FALSE
    /\ msi_analysis = [given |-> FALSE, msi_entries |-> << >>]
    /\ msi_input_dir = "missing"
    /\ msi_files = {}
    /\ msi_metadata = [present |-> FALSE, entries |-> << >>]
    /\ msi_pc = "idle"
    /\ msi_modified = EmptyDict
    /\ msi_structure_info = [present |-> FALSE, entries |-> << >>]
    /\ msi_image_files = << >>
    /\ msi_i = 0
    /\ msi_out = << >>
    /\ msi_out_exists = FALSE
    /\ msi_total_size = 0
    /\ msi_result = "running"

Init ==
    /\ MsiIdle
    /\ OtherIdle
    /\ data \in Hosts
    /\ LET packages == detect_asus_packer_format(data)
           entries == Flatten(packages, 1)
       IN  \/ /\ extracted_dir_exists = TRUE
              /\ pkg_dirs \in { 1..Len(packages) }
                   \cup (IF Len(packages) = 2 THEN { {2} } ELSE {})
              /\ \E choice \in [1..Len(entries) -> CandKinds] :
                     files = { f \in FilesFor(entries, choice) : f.dir \in pkg_dirs }
           \/ /\ extracted_dir_exists = FALSE
              /\ pkg_dirs = {}
              /\ files = {}
    /\ pc = "start"
    /\ original_packages = << >>
    /\ modified_images = EmptyDict
    /\ modified_count = 0
    /\ unchanged_count = 0
    /\ strategy = "none"
    /\ new_data = << >>
    /\ current_pos = 0
    /\ cur_pkg = 0
    /\ cur_img = 0
    /\ emitted = << >>
    /\ out_marks = << >>
    /\ result = "running"

\* ------------------------------------------------------------------------
\* rebuild_asus_packer_preserve_structure: steps 1 and 2
\* ------------------------------------------------------------------------

\* lines 167-169
FailNoDirectory ==
    /\ pc = "start"
    /\ ~extracted_dir_exists
    /\ result' = "False"
    /\ pc' = "done"
    /\ UNCHANGED << other_vars, msi_vars, inputs, original_packages, modified_images, modified_count,
                    unchanged_count, strategy, rebuild_vars >>

\* lines 173-177, no package found
FailNoPackages ==
    /\ pc = "start"
    /\ extracted_dir_exists
    /\ detect_asus_packer_format(data) = << >>
    /\ result' = "False"
    /\ pc' = "done"
    /\ UNCHANGED << other_vars, msi_vars, inputs, original_packages, modified_images, modified_count,
                    unchanged_count, strategy, rebuild_vars >>

\* lines 173-177
AnalyzeStructure ==
    /\ pc = "start"
    /\ extracted_dir_exists
    /\ detect_asus_packer_format(data) # << >>
    /\ original_packages' = detect_asus_packer_format(data)
    /\ pc' = "detect"
    /\ UNCHANGED << other_vars, msi_vars, inputs, modified_images, modified_count, unchanged_count,
                    strategy, rebuild_vars, result >>

\* a validation that accepts every replacement
ValidateAlwaysTrue(original_image, bytes) == TRUE

\* a validation that only compares the lengths
ValidateMutSameSize(original_image, bytes) == Len(bytes) = original_image.size

\* _validate_image_replacement
_validate_image_replacement(original_image, bytes) ==
    original_image.type = detect_asus_image_type(bytes)

\* re.match(r'^image_nr(\d+)_off0x([0-9A-Fa-f]+)\.[a-zA-Z0-9]+$', filename):
\* the number and the offset are printed as digits, the extension must be
\* a nonempty alphanumeric word
FileNamePatternOk(name) ==
    name[3] \in { "bmp", "jpg", "png", "gif", "ico", "img" }

\* one iteration of the loop of lines 191-235; acc is
\* [modified, modified_count, unchanged_count]
DetectImage(fs, pkg_idx, image, acc) ==
    LET name == FileName(image)
    IN  IF ~FileNamePatternOk(name) THEN [acc EXCEPT !.unchanged_count = @ + 1]
        ELSE IF ~FileExists(fs, pkg_idx, name) THEN acc
        ELSE LET extracted_data == ReadFile(fs, pkg_idx, name)
             IN  IF ~_validate_image_replacement(image, extracted_data)
                 THEN [acc EXCEPT !.unchanged_count = @ + 1]
                 ELSE IF extracted_data = image.data
                 THEN [acc EXCEPT !.unchanged_count = @ + 1]
                 ELSE [acc EXCEPT
                         !.modified_count = @ + 1,
                         !.modified =
                            (image.absolute_offset :>
                               [ original_image |-> image,
                                 new_data |-> extracted_data,
                                 new_size |-> Len(extracted_data),
                                 size_diff |-> Len(extracted_data) - image.size,
                                 package_idx |-> pkg_idx ]) @@ @]

RECURSIVE DetectImages(_, _, _, _, _)
DetectImages(fs, pkg_idx, images, j, acc) ==
    IF j > Len(images) THEN acc
    ELSE DetectImages(fs, pkg_idx, images, j + 1,
                      DetectImage(fs, pkg_idx, images[j], acc))

\* the loop of lines 185-235 over the packages
RECURSIVE DetectPackages(_, _, _, _, _)
DetectPackages(fs, dirs, packages, i, acc) ==
    IF i > Len(packages) THEN acc
    ELSE IF i \notin dirs THEN DetectPackages(fs, dirs, packages, i + 1, acc)
    ELSE DetectPackages(fs, dirs, packages, i + 1,
                        DetectImages(fs, i, packages[i].images, 1, acc))

\* lines 181-240
DetectChanges ==
    /\ pc = "detect"
    /\ LET acc == DetectPackages(files, pkg_dirs, original_packages, 1,
                    [modified |-> EmptyDict, modified_count |-> 0,
                     unchanged_count |-> 0])
       IN  /\ modified_images' = acc.modified
           /\ modified_count' = acc.modified_count
           /\ unchanged_count' = acc.unchanged_count
    /\ pc' = "decide"
    /\ UNCHANGED << other_vars, msi_vars, inputs, original_packages, strategy, rebuild_vars, result >>

\* ------------------------------------------------------------------------
\* Step 3: the strategy decision
\* ------------------------------------------------------------------------

RECURSIVE SumSizeDiff(_, _)
SumSizeDiff(modified, offsets) ==
    IF offsets = {} THEN 0
    ELSE LET o == SetMin(offsets)
         IN  modified[o].size_diff + SumSizeDiff(modified, offsets \ {o})

\* sum(info['size_diff'] for info in modified_images.values())
total_size_change(modified) == SumSizeDiff(modified, DOMAIN modified)

\* lines 242-254: shutil.copy2(self.file_path, output_file)
CopyFile(d) == d

CopyOriginal ==
    /\ pc = "decide"
    /\ modified_count = 0
    /\ new_data' = CopyFile(data)
    /\ strategy' = "copy"
    /\ result' = "True"
    /\ pc' = "done"
    /\ UNCHANGED << other_vars, msi_vars, inputs, original_packages, modified_images, modified_count,
                    unchanged_count, current_pos, cur_pkg, cur_img, emitted,
                    out_marks >>

\* the test of line 260
UseDirectReplace(modified) == total_size_change(modified) = 0

\* lines 258-263
ChooseDirectReplace ==
    /\ pc = "decide"
    /\ modified_count # 0
    /\ UseDirectReplace(modified_images)
    /\ strategy' = "direct"
    /\ pc' = "direct"
    /\ UNCHANGED << other_vars, msi_vars, inputs, original_packages, modified_images, modified_count,
                    unchanged_count, rebuild_vars, result >>

\* lines 264-267 and 330-332
ChooseStructuralRebuild ==
    /\ pc = "decide"
    /\ modified_count # 0
    /\ ~UseDirectReplace(modified_images)
    /\ strategy' = "structural"
    /\ new_data' = << >>
    /\ current_pos' = 0
    /\ cur_pkg' = 1
    /\ pc' = "pkg"
    /\ UNCHANGED << other_vars, msi_vars, inputs, original_packages, modified_images, modified_count,
                    unchanged_count, cur_img, emitted, out_marks, result >>

\* ------------------------------------------------------------------------
\* _direct_replace_images
\* ------------------------------------------------------------------------

\* a slice assignment that lands one byte late
AssignSliceMutShifted(buf, offset, size, bytes) ==
    Slice(buf, 0, offset + 1) \o bytes \o Slice(buf, offset + 1 + size, Len(buf))

\* new_data[offset:offset + original_size] = new_image_data
AssignSlice(buf, offset, size, bytes) ==
    Slice(buf, 0, offset) \o bytes \o Slice(buf, offset + size, Len(buf))

\* one iteration of the loop of lines 280-301
DirectReplaceOne(buf, offset, info) ==
    IF Len(info.new_data) # info.original_image.size THEN buf
    ELSE IF ~_validate_image_replacement(info.original_image, info.new_data) THEN buf
    ELSE AssignSlice(buf, offset, info.original_image.size, info.new_data)

\* the loop over sorted(modified_images.keys(), reverse=True)
RECURSIVE DirectReplaceLoop(_, _, _)
DirectReplaceLoop(buf, modified, offsets) ==
    IF offsets = {} THEN buf
    ELSE LET o == SetMax(offsets)
         IN  DirectReplaceLoop(DirectReplaceOne(buf, o, modified[o]), modified,
                               offsets \ {o})

\* lines 269-324
DirectReplace ==
    /\ pc = "direct"
    /\ new_data' = DirectReplaceLoop(data, modified_images, DOMAIN modified_images)
    /\ result' = "True"
    /\ pc' = "done"
    /\ UNCHANGED << other_vars, msi_vars, inputs, original_packages, modified_images, modified_count,
                    unchanged_count, strategy, current_pos, cur_pkg, cur_img,
                    emitted, out_marks >>

\* ------------------------------------------------------------------------
\* _structure_preserving_rebuild
\* ------------------------------------------------------------------------

\* sorted(package['images'], key=lambda x: x['number']): the numbers of a
\* scanned package are 1, 2, ... in list order and the sort is stable
RECURSIVE SortByNumber(_)
SortByNumber(images) ==
    IF images = << >> THEN << >>
    ELSE LET m == SetMin({ images[i].number : i \in 1..Len(images) })
             k == SetMin({ i \in 1..Len(images) : images[i].number = m })
         IN  << images[k] >>
               \o SortByNumber([i \in 1..(Len(images) - 1) |->
                                  IF i < k THEN images[i] ELSE images[i + 1]])

\* a copy of the bytes before a package that loses the first of them
PreservedDataMutDropFirst(d, pos, pkg_start) ==
    IF pos < pkg_start THEN Slice(d, pos + 1, pkg_start) ELSE << >>

\* lines 338-341: the bytes between the read position and the package
PreservedData(d, pos, pkg_start) ==
    IF pos < pkg_start THEN Slice(d, pos, pkg_start) ELSE << >>

\* lines 421-423: the bytes after the last package
RemainingData(d, pos) ==
    IF pos < Len(d) THEN Slice(d, pos, Len(d)) ELSE << >>

\* lines 338-348: the bytes before the package, then its header
BeginPackage ==
    /\ pc = "pkg"
    /\ cur_pkg <= Len(original_packages)
    /\ LET package == original_packages[cur_pkg]
           pkg_start == package.header_offset
           preserved == PreservedData(data, current_pos, pkg_start)
       IN  /\ new_data' = new_data \o preserved
                           \o Slice(data, pkg_start, package.header_end)
           /\ out_marks' = Append(out_marks,
                 [ hdr_pos |-> Len(new_data) + Len(preserved),
                   hdr_end |-> Len(new_data'),
                   end |-> -1 ])
    /\ cur_img' = 1
    /\ pc' = "img"
    /\ UNCHANGED << other_vars, msi_vars, inputs, original_packages, modified_images, modified_count,
                    unchanged_count, strategy, current_pos, cur_pkg, emitted,
                    result >>

\* lines 357-370: the payload emitted for an image
ChoosePayload(img_info, modified) ==
    IF img_info.absolute_offset \in DOMAIN modified
    THEN modified[img_info.absolute_offset].new_data
    ELSE img_info.data

\* a pattern choice that always takes the default constants
SpecialPatternMutDefault(d, img_info) ==
    IF img_info.number = 1 THEN DefaultPatternFirst ELSE DefaultPatternOther

\* lines 382-400: the 24 bytes written after size and offset
SpecialPatternFor(d, img_info) ==
    IF img_info.special_pattern # << >> /\ Len(img_info.special_pattern) = 24
    THEN img_info.special_pattern
    ELSE IF img_info.metadata_offset + 32 <= Len(d)
    THEN Slice(d, img_info.metadata_offset + 8, img_info.metadata_offset + 32)
    ELSE IF img_info.number = 1 THEN DefaultPatternFirst
    ELSE DefaultPatternOther

\* a size field that keeps the size of the original payload
SizeFieldMutOriginal(img_info, img_data) == PackLE32(img_info.size)

\* line 374: the size field
SizeField(img_info, img_data) == PackLE32(Len(img_data))

\* lines 372-409: the record written for one image
RecordFor(d, img_info, img_data) ==
    SizeField(img_info, img_data) \o PackLE32(FixedRelOffset)
      \o SpecialPatternFor(d, img_info)
      \o img_data \o Zeros(RebuildPadding(Len(img_data)))

\* lines 356-409, one iteration
EmitImage ==
    /\ pc = "img"
    /\ LET sorted_images == SortByNumber(original_packages[cur_pkg].images)
       IN  /\ cur_img <= Len(sorted_images)
           /\ LET img_info == sorted_images[cur_img]
                  img_data == ChoosePayload(img_info, modified_images)
              IN  /\ new_data' = new_data \o RecordFor(data, img_info, img_data)
                  /\ emitted' = Append(emitted,
                        [ pkg_idx |-> cur_pkg,
                          number |-> img_info.number,
                          pos |-> Len(new_data),
                          img_data |-> img_data,
                          replaced |-> img_info.absolute_offset \in DOMAIN modified_images ])
    /\ cur_img' = cur_img + 1
    /\ UNCHANGED << other_vars, msi_vars, inputs, pc, original_packages, modified_images, modified_count,
                    unchanged_count, strategy, current_pos, cur_pkg, out_marks,
                    result >>

\* line 412
EndPackage ==
    /\ pc = "img"
    /\ cur_img > Len(original_packages[cur_pkg].images)
    /\ current_pos' = original_packages[cur_pkg].header_offset
                        + original_packages[cur_pkg].total_size
    /\ cur_pkg' = cur_pkg + 1
    /\ out_marks' = [out_marks EXCEPT ![cur_pkg].end = Len(new_data)]
    /\ pc' = "pkg"
    /\ UNCHANGED << other_vars, msi_vars, inputs, original_packages, modified_images, modified_count,
                    unchanged_count, strategy, new_data, cur_img, emitted, result >>

\* lines 421-445
FinishRebuild ==
    /\ pc = "pkg"
    /\ cur_pkg > Len(original_packages)
    /\ new_data' = new_data \o RemainingData(data, current_pos)
    /\ result' = "True"
    /\ pc' = "done"
    /\ UNCHANGED << other_vars, msi_vars, inputs, original_packages, modified_images, modified_count,
                    unchanged_count, strategy, current_pos, cur_pkg, cur_img,
                    emitted, out_marks >>

Next ==
    \/ FailNoDirectory
    \/ FailNoPackages
    \/ AnalyzeStructure
    \/ DetectChanges
    \/ CopyOriginal
    \/ ChooseDirectReplace
    \/ ChooseStructuralRebuild
    \/ DirectReplace
    \/ BeginPackage
    \/ EmitImage
    \/ EndPackage
    \/ FinishRebuild

Spec == Init /\ [][Next]_vars

\* ------------------------------------------------------------------------
\* Format B (MSI): the scanner of MSIFileAnalyzer
\* ------------------------------------------------------------------------

\* entries of a generated format B host
MaxEntriesB == 3

\* payload sizes of the generated format B hosts range over 1..MaxPayloadB
MaxPayloadB == 2

\* self.MSI_SIGNATURE = b'$MsI$'
MSI_SIGNATURE == << 36, 77, 115, 73, 36 >>

\* self.HEADER_SIZE
HEADER_SIZE == 12

\* self.supported_extensions, written without the dot
supported_extensions == << "bin", "jpg", "jpeg", "png", "bmp", "ico" >>

\* bytes.startswith
StartsWith(d, magic) ==
    /\ Len(d) >= Len(magic)
    /\ SubSeq(d, 1, Len(magic)) = magic

\* self.magic_patterns, in insertion order
magic_patterns ==
    << [magic |-> MSI_SIGNATURE,            desc |-> "MSI Packer Header"],
       [magic |-> << 255, 216, 255 >>,      desc |-> "JPEG Image Start"],
       [magic |-> << 137, 80, 78, 71 >>,    desc |-> "PNG Image Start"],
       [magic |-> << 66, 77 >>,             desc |-> "BMP Image Start"],
       [magic |-> << 0, 0, 1, 0 >>,         desc |-> "ICO Image Start"],
       [magic |-> << 82, 73, 70, 70 >>,     desc |-> "RIFF Container"],
       [magic |-> << 77, 90 >>,             desc |-> "PE/DOS Executable"],
       [magic |-> << 95, 70, 86, 72 >>,     desc |-> "UEFI Firmware Volume"] >>

RECURSIVE FirstMagic(_, _)
FirstMagic(image_data, j) ==
    IF j > Len(magic_patterns) THEN "none"
    ELSE IF StartsWith(image_data, magic_patterns[j].magic)
         THEN magic_patterns[j].desc
         ELSE FirstMagic(image_data, j + 1)

\* MSIFileAnalyzer._detect_image_type; the hex digits that follow "Unknown"
\* for a payload of 4 bytes or more are not carried
_detect_image_type(image_data) ==
    IF image_data = << >> THEN "Empty"
    ELSE IF FirstMagic(image_data, 1) # "none" THEN FirstMagic(image_data, 1)
    ELSE IF Len(image_data) >= 4 THEN "Unknown (hex)"
    ELSE "Unknown"

\* MSIFileAnalyzer._parse_msi_header, for offset + HEADER_SIZE <= len(data)
_parse_msi_header(d, offset) ==
    LET header_data == Slice(d, offset, offset + HEADER_SIZE)
    IN  [ signature    |-> SubSeq(header_data, 1, 4),
          sector       |-> header_data[5],
          layer        |-> header_data[6],
          image_number |-> header_data[7],
          reserved     |-> header_data[8],
          image_size   |-> UnpackLE32(SubSeq(header_data, 9, 12)) ]

\* the loop of _find_msi_entries, comparing data[offset:offset+4] with
\* the given signature
RECURSIVE FindEntries(_, _, _, _)
FindEntries(signature, d, offset, entries) ==
    IF ~(offset < Len(d) - HEADER_SIZE) THEN entries
    ELSE IF Slice(d, offset, offset + 4) = signature
    THEN LET header == _parse_msi_header(d, offset)
             image_start == offset + HEADER_SIZE
             image_end == image_start + header.image_size
         IN  IF image_end <= Len(d)
             THEN FindEntries(signature, d, image_end,
                    Append(entries,
                      [ index             |-> Len(entries),
                        offset            |-> offset,
                        header            |-> header,
                        image_data_offset |-> image_start,
                        image_data_size   |-> header.image_size,
                        image_type        |->
                          _detect_image_type(Slice(d, image_start, image_end)) ]))
             ELSE FindEntries(signature, d, offset + 1, entries)
    ELSE FindEntries(signature, d, offset + 1, entries)

\* MSIFileAnalyzer._find_msi_entries: the 4-byte slice is compared with the
\* 5-byte MSI_SIGNATURE
_find_msi_entries(d) == FindEntries(MSI_SIGNATURE, d, 0, << >>)

\* ------------------------------------------------------------------------
\* Format B: generated hosts, analyses and candidate files
\* ------------------------------------------------------------------------

\* the 4 signature bytes of the 12-byte header (MSIHeader.signature)
Signature4 == SubSeq(MSI_SIGNATURE, 1, 4)

\* payload of entry i (0-based) of n bytes
PayloadB(i, n) == [j \in 1..n |-> 16 * (i + 1) + j]

\* 12-byte header of entry i: "plain" is what a default header is meant to
\* hold, "vendor" carries sector '$', layer 1 and numbers from 1
HeaderB(kind, i, n) ==
    Signature4
      \o (IF kind = "plain" THEN << 0, 0, i, 0 >> ELSE << 36, 1, i + 1, 0 >>)
      \o PackLE32(n)

RECURSIVE HostB(_, _, _, _, _)
HostB(kind, k, s1, s2, i) ==
    IF i >= k THEN << >>
    ELSE LET n == IF i % 2 = 0 THEN s1 ELSE s2
         IN  HeaderB(kind, i, n) \o PayloadB(i, n) \o HostB(kind, k, s1, s2, i + 1)

HostsB ==
    { HostB(kind, k, s1, s2, 0) :
        kind \in { "plain", "vendor" }, k \in 2..MaxEntriesB,
        s1 \in 1..MaxPayloadB, s2 \in 1..MaxPayloadB }

\* the entries of a host as the 12-byte header layout describes them: the
\* msi_entries of an analysis handed to repack_from_directory by a caller
DecodedEntries(d) == FindEntries(Signature4, d, 0, << >>)

\* one entry of structure_info as built from an analysis entry
StructureEntry(entry) ==
    [ index        |-> entry.index,
      offset       |-> entry.offset,
      image_size   |-> entry.image_data_size,
      image_type   |-> entry.image_type,
      sector       |-> entry.header.sector,
      layer        |-> entry.header.layer,
      image_number |-> entry.header.image_number,
      reserved     |-> entry.header.reserved ]

StructureEntries(entries) == [k \in 1..Len(entries) |-> StructureEntry(entries[k])]

\* original_analysis: None, the result of analyze_file, or the decoded
\* entries
AnalysesOf(d) ==
    { [given |-> FALSE, msi_entries |-> << >>],
      [given |-> TRUE,  msi_entries |-> _find_msi_entries(d)],
      [given |-> TRUE,  msi_entries |-> DecodedEntries(d)] }

CandKindsB == { "same", "changed", "retyped", "none" }

\* the file image_nr<index>_off0x<offset>.bin of an entry; the offset of
\* the name is that of the header or that of the payload; a "retyped" file
\* holds the two bytes "BM", which _detect_image_type calls a BMP image
CandFileB(d, entry, kind, off_kind) ==
    LET payload == Slice(d, entry.image_data_offset,
                         entry.image_data_offset + entry.image_data_size)
    IN  [ nr    |-> entry.index,
          off   |-> IF off_kind = "header" THEN entry.offset
                    ELSE entry.image_data_offset,
          ext   |-> "bin",
          bytes |-> IF kind = "same" THEN payload
                    ELSE IF kind = "retyped" THEN << 66, 77 >>
                    ELSE [j \in 1..Len(payload) |-> (payload[j] + 128) % 256] ]

FilesForB(d, choice, off_kind) ==
    LET entries == DecodedEntries(d)
    IN  { CandFileB(d, entries[k], choice[k], off_kind) :
            k \in { j \in 1..Len(entries) : choice[j] # "none" } }

AsusIdle ==
    /\ data = << >>
    /\ extracted_dir_exists = FALSE
    /\ pkg_dirs = {}
    /\ files = {}
    /\ pc = "idle"
    /\ original_packages = << >>
    /\ modified_images = EmptyDict
    /\ modified_count = 0
    /\ unchanged_count = 0
    /\ strategy = "none"
    /\ new_data = << >>
    /\ current_pos = 0
    /\ cur_pkg = 0
    /\ cur_img = 0
    /\ emitted = << >>
    /\ out_marks = << >>
    /\ result = "running"

NoStructure == [present |-> FALSE, entries |-> << >>]

InitB ==
    /\ AsusIdle
    /\ OtherIdle
    /\ msi_host \in HostsB
    /\ msi_original_file \in BOOLEAN
    /\ msi_analysis \in AnalysesOf(msi_host)
    /\ \/ /\ msi_input_dir = "missing"
          /\ msi_files = {}
          /\ msi_metadata = NoStructure
       \/ /\ msi_input_dir \in { "pack", "flat" }
          /\ \E off_kind \in { "header", "payload" } :
               \E choice \in [1..Len(DecodedEntries(msi_host)) -> CandKindsB] :
                   msi_files = FilesForB(msi_host, choice, off_kind)
          /\ msi_metadata \in
               { NoStructure } \cup
               (IF msi_input_dir = "pack"
                THEN { [present |-> TRUE,
                        entries |-> StructureEntries(DecodedEntries(msi_host))] }
                ELSE {})
    /\ msi_pc = "start"
    /\ msi_modified = EmptyDict
    /\ msi_structure_info = NoStructure
    /\ msi_image_files = << >>
    /\ msi_i = 0
    /\ msi_out = << >>
    /\ msi_out_exists = FALSE
    /\ msi_total_size = 0
    /\ msi_result = "running"

\* ------------------------------------------------------------------------
\* Format B: change detection of MSIImageRepacker
\* ------------------------------------------------------------------------

HasFileB(fs, nr, off, ext) ==
    \E f \in fs : f.nr = nr /\ f.off = off /\ f.ext = ext

ReadFileB(fs, nr, off, ext) ==
    (CHOOSE f \in fs : f.nr = nr /\ f.off = off /\ f.ext = ext).bytes

\* lines 704-709: the first supported extension under which the file exists
RECURSIVE FirstExt(_, _, _, _)
FirstExt(fs, nr, off, j) ==
    IF j > Len(supported_extensions) THEN ""
    ELSE IF HasFileB(fs, nr, off, supported_extensions[j])
         THEN supported_extensions[j]
         ELSE FirstExt(fs, nr, off, j + 1)

\* lines 698-709: the extension of the file compared with the entry, "" when
\* there is none
CandidateExt(fs, entry) ==
    IF HasFileB(fs, entry.index, entry.offset, entry.image_type)
    THEN entry.image_type
    ELSE FirstExt(fs, entry.index, entry.offset, 1)

\* dict assignment d[key] = value
DictPut(d, key, value) ==
    [x \in (DOMAIN d) \cup { key } |-> IF x = key THEN value ELSE d[x]]

\* one iteration of the loop of lines 684-737
DetectEntryB(fs, host, entry, acc) ==
    LET start_offset == entry.offset
        end_offset == start_offset + entry.image_data_size
    IN  IF end_offset > Len(host) THEN acc
        ELSE LET original_image_data == Slice(host, start_offset, end_offset)
                 ext == CandidateExt(fs, entry)
             IN  IF ext = "" THEN acc
                 ELSE LET extracted_data ==
                            ReadFileB(fs, entry.index, entry.offset, ext)
                      IN  IF extracted_data = original_image_data THEN acc
                          ELSE DictPut(acc, entry.index,
                                 [ new_data  |-> extracted_data,
                                   new_size  |-> Len(extracted_data),
                                   size_diff |-> Len(extracted_data)
                                                   - entry.image_data_size ])

RECURSIVE DetectEntriesB(_, _, _, _, _)
DetectEntriesB(fs, host, entries, k, acc) ==
    IF k > Len(entries) THEN acc
    ELSE DetectEntriesB(fs, host, entries, k + 1,
                        DetectEntryB(fs, host, entries[k], acc))

\* MSIImageRepacker._detect_modified_images
_detect_modified_images(fs, host, analysis) ==
    IF ~analysis.given THEN EmptyDict
    ELSE DetectEntriesB(fs, host, analysis.msi_entries, 1, EmptyDict)

\* MSIImageRepacker._find_original_image_at_offset; << -1 >> stands for None
_find_original_image_at_offset(original_data, offset, expected_size) ==
    IF offset >= Len(original_data) THEN << -1 >>
    ELSE IF offset + expected_size <= Len(original_data)
         THEN Slice(original_data, offset, offset + expected_size)
         ELSE Slice(original_data, offset, Len(original_data))

\* the files a glob of the supported extensions returns
GlobSupported(fs) ==
    { f \in fs : \E j \in 1..Len(supported_extensions) :
                     f.ext = supported_extensions[j] }

\* one iteration of the loop of lines 774-838
DetectFileSimple(host, f, acc) ==
    LET original_image_data ==
            _find_original_image_at_offset(host, f.off, Len(f.bytes))
    IN  IF original_image_data = << -1 >>
        THEN DictPut(acc, f.nr,
               [ new_data |-> f.bytes, new_size |-> Len(f.bytes), size_diff |-> 0 ])
        ELSE IF f.bytes = original_image_data THEN acc
        ELSE DictPut(acc, f.nr,
               [ new_data  |-> f.bytes,
                 new_size  |-> Len(f.bytes),
                 size_diff |-> Len(f.bytes) - Len(original_image_data) ])

RECURSIVE DetectFilesSimple(_, _, _)
DetectFilesSimple(host, fs, acc) ==
    IF fs = {} THEN acc
    ELSE LET f == CHOOSE x \in fs : \A y \in fs : x.nr <= y.nr
         IN  DetectFilesSimple(host, fs \ { f }, DetectFileSimple(host, f, acc))

\* MSIImageRepacker._detect_modified_images_simple
_detect_modified_images_simple(fs, host) ==
    DetectFilesSimple(host, GlobSupported(fs), EmptyDict)

\* ------------------------------------------------------------------------
\* Format B: headers and binary creation of MSIImageRepacker
\* ------------------------------------------------------------------------

\* bytearray slice assignment buf[a:b] = bytes
SliceAssign(buf, a, b, bytes) ==
    Slice(buf, 0, a) \o bytes \o Slice(buf, b, Len(buf))

\* bytearray item assignment buf[i] = v
ItemAssign(buf, i, v) == [buf EXCEPT ![i + 1] = v]

\* struct.pack_into('<I', buf, offset, n)
PackInto(buf, offset, n) ==
    [j \in 1..Len(buf) |->
        IF j > offset /\ j <= offset + 4 THEN PackLE32(n)[j - offset] ELSE buf[j]]

\* MSIImageRepacker._create_msi_header
_create_msi_header(image_number, image_size) ==
    LET h0 == SliceAssign(Zeros(HEADER_SIZE), 0, 4, MSI_SIGNATURE)
        h1 == ItemAssign(h0, 4, 0)
        h2 == ItemAssign(h1, 5, 0)
        h3 == ItemAssign(h2, 6, image_number % 256)
        h4 == ItemAssign(h3, 7, 0)
    IN  [ raised |-> FALSE, bytes |-> PackInto(h4, 8, image_size) ]

\* MSIImageRepacker._create_msi_header_from_structure: line 441 reads
\* self.msi_signature, an attribute the class never sets, so the call
\* raises AttributeError
_create_msi_header_from_structure(header_info, image_size) ==
    [ raised |-> TRUE, bytes |-> << >> ]

\* MSIImageRepacker._create_msi_header_from_original: as in
\* _create_msi_header, the 5-byte MSI_SIGNATURE is assigned to header[0:4]
_create_msi_header_from_original(original_header, new_size) ==
    LET h0 == SliceAssign(Zeros(HEADER_SIZE), 0, 4, MSI_SIGNATURE)
        h1 == ItemAssign(h0, 4, original_header.sector)
        h2 == ItemAssign(h1, 5, original_header.layer)
        h3 == ItemAssign(h2, 6, original_header.image_number)
        h4 == ItemAssign(h3, 7, original_header.reserved)
    IN  [ raised |-> FALSE, bytes |-> PackInto(h4, 8, new_size) ]

\* image_files.sort(key=number of the name)
RECURSIVE SortFilesB(_)
SortFilesB(fs) ==
    IF fs = {} THEN << >>
    ELSE LET f == CHOOSE x \in fs : \A y \in fs : x.nr <= y.nr
         IN  << f >> \o SortFilesB(fs \ { f })

\* lines 108-130: structure_info of _repack_with_structure_preservation
StructureInfoFor(analysis, metadata) ==
    IF analysis.given
    THEN [present |-> TRUE, entries |-> StructureEntries(analysis.msi_entries)]
    ELSE metadata

\* header of the i-th file (0-based), lines 395-410
HeaderFor(structure_info, i, image_data) ==
    IF structure_info.present /\ i < Len(structure_info.entries)
    THEN _create_msi_header_from_structure(structure_info.entries[i + 1],
                                           Len(image_data))
    ELSE _create_msi_header(i, Len(image_data))

msi_run == << msi_modified, msi_structure_info, msi_image_files, msi_i,
             msi_out, msi_out_exists, msi_total_size >>

\* lines 57-59
MsiFailNoInputDir ==
    /\ msi_pc = "start"
    /\ msi_input_dir = "missing"
    /\ msi_result' = "False"
    /\ msi_pc' = "done"
    /\ UNCHANGED << other_vars, asus_vars, msi_inputs, msi_run >>

\* lines 71-76 and 86-91: change detection with an original file; no
\* modified image copies the original file (_copy_original_file)
MsiDetectChanges ==
    /\ msi_pc = "start"
    /\ msi_input_dir # "missing"
    /\ msi_original_file
    /\ LET modified ==
             IF msi_input_dir = "pack"
             THEN _detect_modified_images(msi_files, msi_host, msi_analysis)
             ELSE _detect_modified_images_simple(msi_files, msi_host)
       IN  /\ msi_modified' = modified
           /\ IF DOMAIN modified = {}
              THEN /\ msi_out' = msi_host
                   /\ msi_out_exists' = TRUE
                   /\ msi_result' = "True"
                   /\ msi_pc' = "done"
              ELSE /\ msi_pc' = IF msi_input_dir = "pack" THEN "preserve"
                                ELSE "simple"
                   /\ UNCHANGED << msi_out, msi_out_exists, msi_result >>
    /\ UNCHANGED << other_vars, asus_vars, msi_inputs, msi_structure_info, msi_image_files,
                    msi_i, msi_total_size >>

\* lines 77-78 and 92-93: no original file, no change detection
MsiSkipDetection ==
    /\ msi_pc = "start"
    /\ msi_input_dir # "missing"
    /\ ~msi_original_file
    /\ msi_pc' = IF msi_input_dir = "pack" THEN "preserve" ELSE "simple"
    /\ UNCHANGED << other_vars, asus_vars, msi_inputs, msi_run, msi_result >>

\* _repack_with_structure_preservation up to the call of
\* _create_msi_binary_with_structure, and the open of the output file
MsiCollectStructured ==
    /\ msi_pc = "preserve"
    /\ msi_structure_info' = StructureInfoFor(msi_analysis, msi_metadata)
    /\ msi_image_files' = SortFilesB(msi_files)
    /\ IF Len(msi_image_files') < 2
       THEN /\ msi_result' = "False"
            /\ msi_pc' = "done"
            /\ UNCHANGED << msi_out, msi_out_exists >>
       ELSE /\ msi_pc' = "emit"
            /\ msi_out' = << >>
            /\ msi_out_exists' = TRUE
            /\ UNCHANGED msi_result
    /\ UNCHANGED << other_vars, asus_vars, msi_inputs, msi_modified, msi_i, msi_total_size >>

\* _repack_simple_mode up to the loop of _create_msi_binary
MsiCollectSimple ==
    /\ msi_pc = "simple"
    /\ msi_image_files' = SortFilesB(GlobSupported(msi_files))
    /\ IF msi_image_files' = << >>
       THEN /\ msi_result' = "False"
            /\ msi_pc' = "done"
            /\ UNCHANGED << msi_out, msi_out_exists >>
       ELSE /\ msi_pc' = "emit"
            /\ msi_out' = << >>
            /\ msi_out_exists' = TRUE
            /\ UNCHANGED msi_result
    /\ UNCHANGED << other_vars, asus_vars, msi_inputs, msi_modified, msi_structure_info,
                    msi_i, msi_total_size >>

\* one iteration of the loop of _create_msi_binary_with_structure (lines
\* 388-416) or of _create_msi_binary (lines 487-500); an exception ends the
\* run with False (lines 431-433)
MsiEmitEntry ==
    /\ msi_pc = "emit"
    /\ msi_i < Len(msi_image_files)
    /\ LET image_data == msi_image_files[msi_i + 1].bytes
           header == HeaderFor(msi_structure_info, msi_i, image_data)
       IN  IF header.raised
           THEN /\ msi_result' = "False"
                /\ msi_pc' = "done"
                /\ UNCHANGED << msi_out, msi_i, msi_total_size >>
           ELSE /\ msi_out' = msi_out \o header.bytes \o image_data
                /\ msi_total_size' = msi_total_size + HEADER_SIZE + Len(image_data)
                /\ msi_i' = msi_i + 1
                /\ UNCHANGED << msi_result, msi_pc >>
    /\ UNCHANGED << other_vars, asus_vars, msi_inputs, msi_modified, msi_structure_info,
                    msi_image_files, msi_out_exists >>

\* the loop is over: the binary creation returns True
MsiFinishBinary ==
    /\ msi_pc = "emit"
    /\ msi_i = Len(msi_image_files)
    /\ msi_result' = "True"
    /\ msi_pc' = "done"
    /\ UNCHANGED << other_vars, asus_vars, msi_inputs, msi_run >>

NextB ==
    \/ MsiFailNoInputDir
    \/ MsiDetectChanges
    \/ MsiSkipDetection
    \/ MsiCollectStructured
    \/ MsiCollectSimple
    \/ MsiEmitEntry
    \/ MsiFinishBinary

SpecB == InitB /\ [][NextB]_vars

\* ------------------------------------------------------------------------
\* The two scanners on their own
\* ------------------------------------------------------------------------

\* a format B host whose last payload is cut short by one byte
TruncatedHostsB == { SubSeq(h, 1, Len(h) - 1) : h \in HostsB }

\* a second record that the scanner must refuse: its sentinel differs in
\* one byte ("badsentinel"), its size field is 0 ("zerosize") or its
\* rel_offset field is 0 ("zerorel")
MalformedHost(kind, s1, s2) ==
    AsusSignature \o NormalEntry(1, s1, 0)
      \o PackLE32(IF kind = "zerosize" THEN 0 ELSE s2)
      \o PackLE32(IF kind = "zerorel" THEN 0 ELSE 32)
      \o Pat8(2)
      \o (IF kind = "badsentinel"
          THEN [ExpectedPattern EXCEPT ![5] = 49]
          ELSE ExpectedPattern)
      \o PayloadOf(2, s2) \o Zeros(PadTo4(s2)) \o << 161 >>

MalformedHosts ==
    { MalformedHost(kind, s1, s2) :
        kind \in { "badsentinel", "zerosize", "zerorel" }, s1 \in Sizes, s2 \in Sizes }

InitScan ==
    /\ OtherIdle
    /\ data \in Hosts \cup MalformedHosts \cup { NoContainerHost }
    /\ extracted_dir_exists = FALSE
    /\ pkg_dirs = {}
    /\ files = {}
    /\ pc = "scan"
    /\ original_packages = << >>
    /\ modified_images = EmptyDict
    /\ modified_count = 0
    /\ unchanged_count = 0
    /\ strategy = "none"
    /\ new_data = << >>
    /\ current_pos = 0
    /\ cur_pkg = 0
    /\ cur_img = 0
    /\ emitted = << >>
    /\ out_marks = << >>
    /\ result = "running"
    /\ msi_host \in HostsB \cup TruncatedHostsB
    /\ msi_original_file = FALSE
    /\ msi_analysis = [given |-> FALSE, msi_entries |-> << >>]
    /\ msi_input_dir = "missing"
    /\ msi_files = {}
    /\ msi_metadata = NoStructure
    /\ msi_pc = "scan"
    /\ msi_modified = EmptyDict
    /\ msi_structure_info = NoStructure
    /\ msi_image_files = << >>
    /\ msi_i = 0
    /\ msi_out = << >>
    /\ msi_out_exists = FALSE
    /\ msi_total_size = 0
    /\ msi_result = "running"

\* AsusImageRepacker.detect_asus_packer_format on the loaded file
ScanA ==
    /\ pc = "scan"
    /\ original_packages' = detect_asus_packer_format(data)
    /\ pc' = "scanned"
    /\ UNCHANGED << other_vars, msi_vars, inputs, modified_images, modified_count,
                    unchanged_count, strategy, rebuild_vars, result >>

\* MSIFileAnalyzer.analyze_file: msi_entries of the result
ScanB ==
    /\ msi_pc = "scan"
    /\ msi_analysis' = [given |-> TRUE, msi_entries |-> _find_msi_entries(msi_host)]
    /\ msi_pc' = "scanned"
    /\ UNCHANGED << other_vars, asus_vars, msi_host, msi_original_file, msi_input_dir, msi_files,
                    msi_metadata, msi_run, msi_result >>

NextScan ==
    \/ ScanA
    \/ ScanB

SpecScan == InitScan /\ [][NextScan]_vars

\* ------------------------------------------------------------------------
\* AsusFileAnalyzer: embedded files and the PNG header query
\* ------------------------------------------------------------------------

\* widths and heights of the generated PNG headers range over 1..MaxDimAn
MaxDimAn == 2

\* the generated BMP spans are MinBmpSize..MinBmpSize + MaxSlackAn bytes long
MaxSlackAn == 1

\* line 216: the smallest and the largest size (50 * 1024 * 1024) accepted
\* for a BMP
MinBmpSize == 100

MaxBmpSize == 52428800

PngSignature == << 137, 80, 78, 71, 13, 10, 26, 10 >>

\* b'IEND\xaeB`\x82'
IendChunk == << 73, 69, 78, 68, 174, 66, 96, 130 >>

IhdrName == << 73, 72, 68, 82 >>

\* struct.unpack('>I', b)
UnpackBE32(b) == b[1] * 16777216 + b[2] * 65536 + b[3] * 256 + b[4]

\* bytes.find(pattern, start): the leftmost occurrence at or after start
FindBytes(d, pattern, start) ==
    LET hits == { p \in start..(Len(d) - Len(pattern)) :
                    Slice(d, p, p + Len(pattern)) = pattern }
    IN  IF hits = {} THEN -1 ELSE SetMin(hits)

\* lines 157-172: the PNG files, from search position png_start on
RECURSIVE FindPngFiles(_, _, _)
FindPngFiles(d, png_start, acc) ==
    LET png_pos == FindBytes(d, PngSignature, png_start)
        iend_pos == FindBytes(d, IendChunk, png_pos)
    IN  IF png_pos = -1 THEN acc
        ELSE FindPngFiles(d, png_pos + 1,
               IF iend_pos # -1
               THEN Append(acc, [type |-> "PNG Image", start |-> png_pos,
                                 size |-> iend_pos + 8 - png_pos])
               ELSE acc)

\* lines 174-200: the JPEG files
RECURSIVE FindJpegFiles(_, _, _)
FindJpegFiles(d, jpeg_start, acc) ==
    LET jpeg_pos == FindBytes(d, << 255, 216, 255 >>, jpeg_start)
        end_mark == FindBytes(d, << 255, 217 >>, jpeg_pos + 3)
    IN  IF jpeg_pos = -1 THEN acc
        ELSE FindJpegFiles(d, jpeg_pos + 1,
               IF end_mark # -1
               THEN Append(acc, [type |-> "JPEG Image", start |-> jpeg_pos,
                                 size |-> end_mark + 2 - jpeg_pos])
               ELSE acc)

\* line 216
BmpSizeOk(d, bmp_pos, bmp_size) ==
    /\ MinBmpSize <= bmp_size
    /\ bmp_size <= MaxBmpSize
    /\ bmp_pos + bmp_size <= Len(d)

\* lines 202-225: the BMP files
RECURSIVE FindBmpFiles(_, _, _)
FindBmpFiles(d, bmp_start, acc) ==
    LET bmp_pos == FindBytes(d, << 66, 77 >>, bmp_start)
        bmp_size == UnpackLE32(Slice(d, bmp_pos + 2, bmp_pos + 6))
    IN  IF bmp_pos = -1 THEN acc
        ELSE FindBmpFiles(d, bmp_pos + 1,
               IF bmp_pos + 6 <= Len(d) /\ BmpSizeOk(d, bmp_pos, bmp_size)
               THEN Append(acc, [type |-> "BMP Image", start |-> bmp_pos,
                                 size |-> bmp_size])
               ELSE acc)

\* lines 246-254 (and 553-563): what is read from the IHDR chunk of the PNG
\* at png_start. struct.unpack('>IIBBB', ihdr_data[:9]) needs 11 bytes and
\* is given at most 9, so it raises (and would yield five values for the
\* four names width, height, bit_depth and color_type); the bare except
\* swallows the exception and nothing is reported
analyze_png_details(d, png_start) ==
    LET ihdr_pos == FindBytes(d, IhdrName, png_start)
        ihdr_data == Slice(d, ihdr_pos + 4, ihdr_pos + 17)
        unpacked == Slice(ihdr_data, 0, 9)
        raised == Len(unpacked) # 11 \/ Len(<< "width", "height", "bit_depth", "color_type" >>) # 5
    IN  IF ihdr_pos = -1 \/ Len(ihdr_data) < 13 \/ raised
        THEN [found |-> FALSE, width |-> 0, height |-> 0, bit_depth |-> 0,
              color_type |-> 0]
        ELSE [found |-> TRUE,
              width |-> UnpackBE32(SubSeq(unpacked, 1, 4)),
              height |-> UnpackBE32(SubSeq(unpacked, 5, 8)),
              bit_depth |-> unpacked[9], color_type |-> unpacked[10]]

\* a PNG file: signature, an IHDR chunk (width w and height h below 256,
\* big-endian) and the IEND chunk; "bare" has an
\* IHDR chunk name without payload, "noihdr" has no IHDR chunk
PngPart(kind, w, h, color_type) ==
    CASE kind = "none" -> << >>
      [] kind = "noihdr" -> PngSignature \o << 0, 0, 0, 0 >> \o IendChunk
      [] kind = "bare" ->
           PngSignature \o << 0, 0, 0, 0 >> \o IhdrName \o IendChunk
      [] kind = "full" ->
           PngSignature \o << 0, 0, 0, 13 >> \o IhdrName
             \o << 0, 0, 0, w >> \o << 0, 0, 0, h >> \o << 8, color_type, 0, 0, 0 >>
             \o << 1, 2, 3, 4 >> \o << 0, 0, 0, 0 >> \o IendChunk

\* "BM", a declared size and filler up to total bytes; "short" stops after
\* three bytes of the size
BmpPart(kind, total) ==
    LET size == CASE kind = "small" -> MinBmpSize - 1
                  [] kind = "min" -> MinBmpSize
                  [] kind = "fit" -> total
                  [] kind = "past" -> total + 1
                  [] OTHER -> 0
    IN  CASE kind = "none" -> << >>
          [] kind = "short" -> << 66, 77, 100, 0, 0 >>
          [] OTHER -> << 66, 77 >> \o PackLE32(size) \o [i \in 1..(total - 6) |-> 7]

AnHosts ==
    { << 9 >> \o PngPart(pk, w, h, c) \o BmpPart(bk, t) :
        pk \in { "none", "noihdr", "bare", "full" },
        w \in 1..MaxDimAn, h \in 1..MaxDimAn, c \in { 2, 6 },
        bk \in { "none", "short", "small", "min", "fit", "past" },
        t \in MinBmpSize..(MinBmpSize + MaxSlackAn) }

InitAn ==
    /\ AsusIdle
    /\ MsiIdle
    /\ MainIdle
    /\ ScanIdle
    /\ an_data \in AnHosts
    /\ an_pc = "start"
    /\ an_embedded = << >>
    /\ an_png = << >>

\* analyze_embedded_files: the three searches, then the report of lines
\* 227-241 with analyze_png_details for every PNG
AnalyzeEmbeddedFiles ==
    /\ an_pc = "start"
    /\ LET embedded_files ==
             FindBmpFiles(an_data, 0, FindJpegFiles(an_data, 0,
                                       FindPngFiles(an_data, 0, << >>)))
       IN  /\ an_embedded' = embedded_files
           /\ an_png' = [k \in 1..Len(embedded_files) |->
                           IF embedded_files[k].type = "PNG Image"
                           THEN analyze_png_details(an_data, embedded_files[k].start)
                           ELSE [found |-> FALSE, width |-> 0, height |-> 0,
                                 bit_depth |-> 0, color_type |-> 0]]
    /\ an_pc' = "done"
    /\ UNCHANGED << asus_vars, msi_vars, main_vars, scan_vars, an_data >>

NextAn == AnalyzeEmbeddedFiles

SpecAn == InitAn /\ [][NextAn]_vars

\* ------------------------------------------------------------------------
\* The two scanners, one loop iteration at a time
\* ------------------------------------------------------------------------

\* the hosts of format A are those of every shape with two payloads of the
\* same length; those of format B have two entries, among them entries that
\* declare a payload of 0 bytes
InitStep ==
    /\ AnIdle
    /\ MainIdle
    /\ ScanIdle
    /\ data \in { HostOf(sh, s, s) : sh \in Shapes, s \in Sizes }
                 \cup { MalformedHost(kind, s, s) :
                          kind \in { "badsentinel", "zerosize", "zerorel" }, s \in Sizes }
                 \cup { NoContainerHost }
    /\ extracted_dir_exists = FALSE
    /\ pkg_dirs = {}
    /\ files = {}
    /\ pc = "search"
    /\ original_packages = << >>
    /\ modified_images = EmptyDict
    /\ modified_count = 0
    /\ unchanged_count = 0
    /\ strategy = "none"
    /\ new_data = << >>
    /\ current_pos = 0
    /\ cur_pkg = 0
    /\ cur_img = 0
    /\ emitted = << >>
    /\ out_marks = << >>
    /\ result = "running"
    /\ msi_host \in { HostB("vendor", 2, s1, s2, 0) : s1 \in { 0, MaxPayloadB }, s2 \in { 0, 1 } }
    /\ msi_original_file = FALSE
    /\ msi_analysis = [given |-> FALSE, msi_entries |-> << >>]
    /\ msi_input_dir = "missing"
    /\ msi_files = {}
    /\ msi_metadata = NoStructure
    /\ msi_pc = "loop"
    /\ msi_modified = EmptyDict
    /\ msi_structure_info = NoStructure
    /\ msi_image_files = << >>
    /\ msi_i = 0
    /\ msi_out = << >>
    /\ msi_out_exists = FALSE
    /\ msi_total_size = 0
    /\ msi_result = "running"

\* lines 38-49 and 124-129: one search for the signature; the scan returns
\* asus_packages when there is no further match
SearchStep ==
    /\ pc = "search"
    /\ LET start_match == SearchSignature(data, scan_position)
       IN  IF start_match = -1
           THEN /\ original_packages' = scan_packages
                /\ pc' = "scanned"
                /\ UNCHANGED << scan_start_match, scan_head, scan_images >>
           ELSE /\ scan_start_match' = start_match
                /\ scan_head' = start_match + 32
                /\ scan_images' = << >>
                /\ pc' = "entries"
                /\ UNCHANGED original_packages
    /\ UNCHANGED << an_vars, main_vars, msi_vars, scan_offset, scan_entries, inputs,
                    modified_images, modified_count, unchanged_count, strategy,
                    rebuild_vars, result, scan_position, scan_packages >>

\* lines 51-111: one iteration of the entry loop that appends an entry
EntryStep ==
    /\ pc = "entries"
    /\ ParseImages(data, scan_head, << >>).images # << >>
    /\ LET image == ParseImages(data, scan_head, << >>).images[1]
       IN  /\ scan_images' = Append(scan_images,
                                    [image EXCEPT !.number = Len(scan_images) + 1])
           /\ scan_head' = scan_head + MetadataLen + image.size + ScanPadding(image.size)
    /\ UNCHANGED << an_vars, main_vars, msi_vars, scan_offset, scan_entries, inputs,
                    modified_images, modified_count, unchanged_count, strategy,
                    rebuild_vars, result, scan_position,
                    scan_start_match, scan_packages, original_packages, pc >>

\* lines 51-82 and 113-122: the iteration that leaves the entry loop, and
\* the container it records
EntryBreak ==
    /\ pc = "entries"
    /\ ParseImages(data, scan_head, << >>).images = << >>
    /\ scan_packages' = Append(scan_packages,
                               [ header_offset |-> scan_start_match,
                                 header_end |-> scan_start_match + 32,
                                 images |-> scan_images,
                                 total_size |-> scan_head - scan_start_match ])
    /\ scan_position' = scan_head
    /\ pc' = "search"
    /\ UNCHANGED << an_vars, main_vars, msi_vars, scan_offset, scan_entries, inputs,
                    modified_images, modified_count, unchanged_count, strategy,
                    rebuild_vars, result, scan_start_match,
                    scan_head, scan_images, original_packages >>

\* an else branch that forgets to advance
SkipOffsetMutStay(offset) == offset

\* lines 201, 205 and 207: offset += 1
SkipOffset(offset) == offset + 1

\* lines 176-207: one iteration of the loop of _find_msi_entries
StepB ==
    /\ msi_pc = "loop"
    /\ scan_offset < Len(msi_host) - HEADER_SIZE
    /\ LET header == _parse_msi_header(msi_host, scan_offset)
           image_start == scan_offset + HEADER_SIZE
           image_end == image_start + header.image_size
       IN  IF /\ Slice(msi_host, scan_offset, scan_offset + 4) = MSI_SIGNATURE
              /\ image_end <= Len(msi_host)
           THEN /\ scan_entries' = Append(scan_entries,
                      [ index             |-> Len(scan_entries),
                        offset            |-> scan_offset,
                        header            |-> header,
                        image_data_offset |-> image_start,
                        image_data_size   |-> header.image_size,
                        image_type        |->
                          _detect_image_type(Slice(msi_host, image_start, image_end)) ])
                /\ scan_offset' = image_end
           ELSE /\ scan_offset' = SkipOffset(scan_offset)
                /\ UNCHANGED scan_entries
    /\ UNCHANGED << an_vars, main_vars, asus_vars, scan_position, scan_start_match,
                    scan_head, scan_images, scan_packages, msi_vars >>

\* lines 176 and 209: the loop condition fails and the entries are returned
FinishB ==
    /\ msi_pc = "loop"
    /\ ~(scan_offset < Len(msi_host) - HEADER_SIZE)
    /\ msi_analysis' = [given |-> TRUE, msi_entries |-> scan_entries]
    /\ msi_pc' = "scanned"
    /\ UNCHANGED << an_vars, main_vars, asus_vars, scan_vars, msi_host, msi_original_file,
                    msi_input_dir, msi_files, msi_metadata, msi_run, msi_result >>

NextStep ==
    \/ SearchStep
    \/ EntryStep
    \/ EntryBreak
    \/ StepB
    \/ FinishB

\* each scanner is a sequential loop of a running program: it keeps taking
\* steps while it has one to take
FairStep ==
    /\ InitStep
    /\ [][NextStep]_vars
    /\ WF_vars(SearchStep \/ EntryStep \/ EntryBreak)
    /\ WF_vars(StepB \/ FinishB)

\* ------------------------------------------------------------------------
\* asus_main: the repack mode
\* ------------------------------------------------------------------------

\* Paths are named after what they are: "file" is an existing file, "dir"
\* an existing directory, "missing" does not exist; "default_file" is the
\* BIOS file next to the program, "default_dir" the directory
\* asus_extracted next to the target, and each exists when its flag is set.
\* "None" is Python's None and "" the empty answer.
PathExists(path) ==
    \/ path \in { "file", "dir" }
    \/ path = "default_file" /\ main_default_file
    \/ path = "default_dir" /\ main_default_dir

\* common/file_utils.py validate_file_path
validate_file_path(file_path) ==
    /\ file_path # ""
    /\ PathExists(file_path)
    /\ file_path \notin { "dir", "default_dir" }

\* common/file_utils.py get_file_path_input: the default on an empty answer
\* when the default exists, the answer otherwise
get_file_path_input(answer, default_path) ==
    IF PathExists(default_path) /\ answer = "" THEN default_path ELSE answer

\* lines 38-62, with get_command_line_file of common/file_utils.py, which
\* takes sys.argv[1] for a path
get_target_file(provided_file) ==
    LET from_argv ==
            IF Len(main_argv) > 0 /\ validate_file_path(main_argv[1])
            THEN main_argv[1] ELSE "None"
        file_path == IF provided_file = "None" THEN from_argv ELSE provided_file
        asked == get_file_path_input(main_user_file, "default_file")
    IN  IF file_path # "None" THEN file_path
        ELSE IF validate_file_path(asked) THEN asked ELSE "None"

\* the argument repack_mode is called with: sys.argv[2] or None from main
\* (lines 166-177), nothing from the menu (line 145)
RepackArgument ==
    IF main_entry = "cli" /\ Len(main_argv) > 1 THEN main_argv[2] ELSE "None"

InitMain ==
    /\ AsusIdle
    /\ MsiIdle
    /\ AnIdle
    /\ ScanIdle
    /\ main_entry \in { "menu", "cli" }
    /\ main_argv \in IF main_entry = "menu" THEN { << >> }
                     ELSE { << "repack" >> } \cup
                          { << "repack", path >> : path \in { "file", "missing", "dir" } }
    /\ main_default_file \in BOOLEAN
    /\ main_user_file \in { "", "file", "missing", "dir" }
    /\ main_default_dir \in BOOLEAN
    /\ main_user_dir \in { "", "dir", "missing" }
    /\ main_user_out \in { "", "out.bin" }
    /\ main_repack_ok \in BOOLEAN
    /\ main_pc = "start"
    /\ main_target = "None"
    /\ main_dir = "None"
    /\ main_called = FALSE
    /\ main_raised = FALSE
    /\ main_result = "running"

\* lines 89-91: target_file = get_target_file(file_path)
MainGetTarget ==
    /\ main_pc = "start"
    /\ main_target' = get_target_file(RepackArgument)
    /\ IF main_target' = "None"
       THEN main_pc' = "done" /\ main_result' = "False"
       ELSE main_pc' = "try" /\ UNCHANGED main_result
    /\ UNCHANGED << asus_vars, msi_vars, an_vars, scan_vars, main_inputs, main_dir,
                    main_called, main_raised >>

\* lines 93-102: os.path.dirname(file_path) raises TypeError when file_path
\* is None, and the except branch of lines 124-126 returns False; otherwise
\* the directory is asked for and must exist
MainExtractedDir ==
    /\ main_pc = "try"
    /\ IF RepackArgument = "None"
       THEN /\ main_raised' = TRUE
            /\ main_pc' = "done"
            /\ main_result' = "False"
            /\ UNCHANGED main_dir
       ELSE /\ main_dir' = get_file_path_input(main_user_dir, "default_dir")
            /\ IF PathExists(main_dir')
               THEN main_pc' = "repack" /\ UNCHANGED main_result
               ELSE main_pc' = "done" /\ main_result' = "False"
            /\ UNCHANGED main_raised
    /\ UNCHANGED << asus_vars, msi_vars, an_vars, scan_vars, main_inputs, main_target,
                    main_called >>

\* lines 104-122: the output name, AsusImageRepacker(target_file), whose
\* os.path.getsize raises on a missing file, and run_repack, whose load_file
\* raises on a directory
MainRunRepack ==
    /\ main_pc = "repack"
    /\ IF ~PathExists(main_target)
       THEN /\ main_raised' = TRUE
            /\ main_result' = "False"
            /\ UNCHANGED main_called
       ELSE /\ main_called' = TRUE
            /\ main_raised' = (main_target = "dir")
            /\ main_result' = IF main_target # "dir" /\ main_repack_ok
                              THEN "True" ELSE "False"
    /\ main_pc' = "done"
    /\ UNCHANGED << asus_vars, msi_vars, an_vars, scan_vars, main_inputs, main_target,
                    main_dir >>

NextMain ==
    \/ MainGetTarget
    \/ MainExtractedDir
    \/ MainRunRepack

SpecMain == InitMain /\ [][NextMain]_vars

\* ------------------------------------------------------------------------
\* Properties of the rebuilds
\* ------------------------------------------------------------------------

\* the (package index, image) pairs of the decoded host
Entries ==
    { << i, k >> : i \in 1..Len(original_packages), k \in 1..2 } \cap
    { x \in (1..Len(original_packages)) \X (1..2) :
        x[2] <= Len(original_packages[x[1]].images) }

ImageOf(x) == original_packages[x[1]].images[x[2]]

\* the candidate of an entry is present
HasCandidate(x) ==
    /\ x[1] \in pkg_dirs
    /\ FileExists(files, x[1], FileName(ImageOf(x)))

CandidateOf(x) == ReadFile(files, x[1], FileName(ImageOf(x)))

\* the candidate is present, of the entry's type, and not its payload
CandidateDiffers(x) ==
    /\ HasCandidate(x)
    /\ detect_asus_image_type(CandidateOf(x)) = ImageOf(x).type
    /\ CandidateOf(x) # ImageOf(x).data

CandidateRejected(x) ==
    /\ HasCandidate(x)
    /\ detect_asus_image_type(CandidateOf(x)) # ImageOf(x).type

OriginalPayloadsOnly ==
    LET entries == DecodedEntries(msi_host)
    IN  /\ msi_input_dir # "missing"
        /\ Len(entries) >= 2
        /\ Cardinality(msi_files) = Len(entries)
        /\ \A k \in 1..Len(entries) :
             \E f \in msi_files :
                /\ f.nr = entries[k].index
                /\ f.bytes = Slice(msi_host, entries[k].image_data_offset,
                                   entries[k].image_data_offset
                                     + entries[k].image_data_size)

\* C2: for a host of k >= 2 back-to-back format B entries and a candidate
\* set holding exactly the original payloads, repack_from_directory
\* succeeds and writes an output byte-identical to the host, with or
\* without an original file.
C2_RoundTripB ==
    (msi_pc = "done" /\ OriginalPayloadsOnly)
    => (msi_result = "True" /\ msi_out = msi_host)

\* C3: the output of Direct Replace is as long as the host and differs from
\* it only inside [absolute_offset, absolute_offset + declared_size) of a
\* modified entry whose replacement is declared_size bytes long.
C3_DirectReplaceFrame ==
    (pc = "done" /\ strategy = "direct")
    => /\ Len(new_data) = Len(data)
       /\ \A p \in 0..(Len(data) - 1) :
            new_data[p + 1] # data[p + 1]
            => \E o \in DOMAIN modified_images :
                 /\ modified_images[o].new_size = modified_images[o].original_image.size
                 /\ o <= p
                 /\ p < o + modified_images[o].original_image.size

C3_Witness ==
    /\ pc = "done"
    /\ strategy = "direct"
    /\ new_data # data
    /\ Cardinality(DOMAIN modified_images) = 2

\* C4: a Modified entry with a nonzero size_delta sends the rebuild to
\* Structural Rebuild; Direct Replace runs only when every delta is 0.
C4_StrategyDecision ==
    strategy \in { "direct", "structural" }
    => (strategy = "direct"
          <=> \A o \in DOMAIN modified_images : modified_images[o].size_diff = 0)

\* C5: when the rebuild returns True, every entry classified Modified has
\* its replacement bytes as payload in the output (read back by the scan).
C5_NoSilentDrop ==
    (pc = "done" /\ result = "True")
    => \A o \in DOMAIN modified_images :
         LET info == modified_images[o]
             out == detect_asus_packer_format(new_data)
         IN  /\ info.package_idx <= Len(out)
             /\ info.original_image.number <= Len(out[info.package_idx].images)
             /\ out[info.package_idx].images[info.original_image.number].data
                  = info.new_data

\* length of a payload with its alignment padding
Padded(n) == n + ((4 - (n % 4)) % 4)

\* end of the padded payload of the k-th emitted record
PaddedEnd(k) == emitted[k].pos + 32 + Padded(Len(emitted[k].img_data))

SamePackageNext(k) ==
    /\ k < Len(emitted)
    /\ emitted[k + 1].pkg_idx = emitted[k].pkg_idx

\* the size field of every emitted record is the length of the payload
\* written at pos + 32
SizeFieldsTrack ==
    \A k \in 1..Len(emitted) :
       LET e == emitted[k]
       IN  /\ UnpackLE32(Slice(new_data, e.pos, e.pos + 4)) = Len(e.img_data)
           /\ Slice(new_data, e.pos + 32, e.pos + 32 + Len(e.img_data)) = e.img_data

\* C6 (as amended): in a Structural Rebuild the size field of each record
\* equals the length of the payload emitted for it, and the record of entry
\* i+1 starts at the end of entry i's padded payload, so that its payload
\* (absolute_offset) starts 32 bytes after that end.
C6_SizeAccounting ==
    strategy = "structural"
    => /\ SizeFieldsTrack
       /\ \A k \in 1..Len(emitted) :
            SamePackageNext(k) => emitted[k + 1].pos = PaddedEnd(k)

\* C6 as stated: the absolute_offset (payload start) of entry i+1 equals the
\* end of entry i's padded payload.
C6_AsStated ==
    strategy = "structural"
    => /\ SizeFieldsTrack
       /\ \A k \in 1..Len(emitted) :
            SamePackageNext(k) => emitted[k + 1].pos + 32 = PaddedEnd(k)

C6_Witness ==
    /\ pc = "done"
    /\ strategy = "structural"
    /\ \E k \in 1..Len(emitted) :
         /\ SamePackageNext(k)
         /\ emitted[k].replaced
         /\ Len(emitted[k].img_data)
              # original_packages[emitted[k].pkg_idx].images[emitted[k].number].size

\* C7: in a Structural Rebuild every payload of length n is followed by
\* exactly (4 - n mod 4) mod 4 zero bytes, after which the next record or
\* the end of the container follows, and every record starts a multiple of
\* 4 bytes after the container header.
C7_Alignment ==
    strategy = "structural"
    => \A k \in 1..Len(emitted) :
         LET e == emitted[k]
             n == Len(e.img_data)
             pad == (4 - (n % 4)) % 4
             end == e.pos + 32 + n
             mark == out_marks[e.pkg_idx]
         IN  /\ Len(new_data) >= end + pad
             /\ Slice(new_data, end, end + pad) = Zeros(pad)
             /\ SamePackageNext(k) => emitted[k + 1].pos = end + pad
             /\ (~SamePackageNext(k) /\ mark.end # -1) => mark.end = end + pad
             /\ (e.pos - mark.hdr_end) % 4 = 0

C7_Witness ==
    /\ pc = "done"
    /\ strategy = "structural"
    /\ \E k \in 1..Len(emitted) :
         /\ emitted[k].replaced
         /\ SamePackageNext(k)
         /\ Len(emitted[k].img_data) % 4 = 0
         /\ original_packages[emitted[k].pkg_idx].images[emitted[k].number].size % 4 # 0
    /\ \E k \in 1..Len(emitted) :
         /\ emitted[k].replaced
         /\ Len(emitted[k].img_data) % 4 # 0

\* the image an emitted record was written for
EmittedImage(k) == original_packages[emitted[k].pkg_idx].images[emitted[k].number]

\* growth of the k-th record: new padded payload minus old padded payload
Growth(k) == Padded(Len(emitted[k].img_data)) - Padded(EmittedImage(k).size)

RECURSIVE GrowthBefore(_)
GrowthBefore(k) == IF k <= 1 THEN 0 ELSE Growth(k - 1) + GrowthBefore(k - 1)

\* C8: the output of a Structural Rebuild is longer than the host by the sum
\* of the payload growth (with padding change) of the Modified entries, and
\* the payload of every entry is shifted by the growth of the entries
\* before it.
C8_LengthAndShift ==
    (pc = "done" /\ strategy = "structural")
    => /\ Len(new_data) = Len(data) + GrowthBefore(Len(emitted) + 1)
       /\ \A k \in 1..Len(emitted) :
            (emitted[k].pos + 32) - EmittedImage(k).absolute_offset = GrowthBefore(k)

\* the records emitted for package i
RecordsOf(i) ==
    LET InPackage(e) == e.pkg_idx = i
    IN  SelectSeq(emitted, InPackage)

\* one record per decoded entry, in decoded order
OneRecordPerEntry ==
    \A i \in 1..Len(original_packages) :
       LET recs == RecordsOf(i)
           images == original_packages[i].images
       IN  /\ Len(recs) = Len(images)
           /\ \A k \in 1..Len(recs) :
                /\ recs[k].number = images[k].number
                /\ k > 1 => /\ recs[k].pos > recs[k - 1].pos
                            /\ images[k].metadata_offset > images[k - 1].metadata_offset

\* the 24 bytes after the size and offset fields of an emitted record
EmittedPattern(k) == Slice(new_data, emitted[k].pos + 8, emitted[k].pos + 32)

\* the bytes the host holds at [head + 8, head + 32) of a record
HostPattern(k) ==
    Slice(data, EmittedImage(k).metadata_offset + 8, EmittedImage(k).metadata_offset + 32)

\* C9 (as amended): a Structural Rebuild emits one record per decoded entry
\* in decoded order; the record carries the entry's 24-byte pattern verbatim
\* when the host holds 24 bytes there, and the default constant of its
\* position (first entry / later entry) when the host ends before them.
C9_OrderAndPattern ==
    (pc = "done" /\ strategy = "structural")
    => /\ OneRecordPerEntry
       /\ \A k \in 1..Len(emitted) :
            EmittedPattern(k) =
              IF Len(HostPattern(k)) = 24 THEN HostPattern(k)
              ELSE IF emitted[k].number = 1 THEN DefaultPatternFirst
              ELSE DefaultPatternOther

\* C9 as stated: every record carries the host's pattern bytes verbatim.
C9_AsStated ==
    (pc = "done" /\ strategy = "structural")
    => /\ OneRecordPerEntry
       /\ \A k \in 1..Len(emitted) : EmittedPattern(k) = HostPattern(k)

C9_Witness ==
    /\ pc = "done"
    /\ strategy = "structural"
    /\ \E k \in 1..Len(emitted) : emitted[k].replaced /\ SamePackageNext(k)
    /\ \E k \in 1..Len(emitted) : Len(HostPattern(k)) < 24
    /\ \E k \in 1..Len(emitted) : Len(HostPattern(k)) = 24

\* C10: the record of an entry that is not Modified is byte-identical to the
\* host bytes between its metadata cursor and the next cursor; for a
\* Modified entry the relative-offset field and the pattern are the host's.
C10_RecordFrame ==
    (pc = "done" /\ strategy = "structural")
    => \A k \in 1..Len(emitted) :
         LET e == emitted[k]
             img == EmittedImage(k)
             head == img.metadata_offset
         IN  IF e.replaced
             THEN Slice(new_data, e.pos + 4, e.pos + 32) = Slice(data, head + 4, head + 32)
             ELSE Slice(new_data, e.pos, e.pos + 32 + Padded(Len(e.img_data)))
                    = Slice(data, head, head + 32 + Padded(img.size))

\* computed end of the i-th container of the host
PackageEnd(i) ==
    original_packages[i].header_offset + original_packages[i].total_size

\* the host bytes from a up to b, empty when b <= a
HostBytes(a, b) == IF a < b THEN Slice(data, a, b) ELSE << >>

\* C11: a Structural Rebuild keeps the bytes outside the containers: the
\* output starts with the host bytes before the first container, ends with
\* the host bytes after the computed end of the last one, and holds the host
\* bytes between two consecutive containers between their rebuilt forms.
C11_OutsideBytesKept ==
    (pc = "done" /\ strategy = "structural")
    => LET n == Len(original_packages)
           tail == HostBytes(PackageEnd(n), Len(data))
       IN  /\ Len(out_marks) = n
           /\ out_marks[1].hdr_pos = original_packages[1].header_offset
           /\ Slice(new_data, 0, out_marks[1].hdr_pos)
                = Slice(data, 0, original_packages[1].header_offset)
           /\ Len(new_data) = out_marks[n].end + Len(tail)
           /\ Slice(new_data, out_marks[n].end, Len(new_data)) = tail
           /\ \A i \in 1..(n - 1) :
                Slice(new_data, out_marks[i].end, out_marks[i + 1].hdr_pos)
                  = HostBytes(PackageEnd(i), original_packages[i + 1].header_offset)

C11_Witness ==
    /\ pc = "done"
    /\ strategy = "structural"
    /\ Len(original_packages) = 2
    /\ original_packages[1].header_offset > 0
    /\ PackageEnd(1) < original_packages[2].header_offset
    /\ PackageEnd(2) < Len(data)
    /\ Len(new_data) # Len(data)

\* lines 334-412 for one package: its header and the records of its images
RECURSIVE StructuralRecords(_, _, _, _)
StructuralRecords(d, sorted_images, modified, j) ==
    IF j > Len(sorted_images) THEN << >>
    ELSE RecordFor(d, sorted_images[j], ChoosePayload(sorted_images[j], modified))
           \o StructuralRecords(d, sorted_images, modified, j + 1)

\* lines 334-412: the loop over the packages, from read position pos
RECURSIVE StructuralPackages(_, _, _, _, _)
StructuralPackages(d, packages, modified, i, pos) ==
    IF i > Len(packages) THEN RemainingData(d, pos)
    ELSE LET package == packages[i]
         IN  PreservedData(d, pos, package.header_offset)
               \o Slice(d, package.header_offset, package.header_end)
               \o StructuralRecords(d, SortByNumber(package.images), modified, 1)
               \o StructuralPackages(d, packages, modified, i + 1,
                                     package.header_offset + package.total_size)

\* the bytes rebuild_asus_packer_preserve_structure writes for a host that
\* holds a container and an existing directory
RebuildOutput(d, dirs, fs) ==
    LET packages == detect_asus_packer_format(d)
        acc == DetectPackages(fs, dirs, packages, 1,
                 [modified |-> EmptyDict, modified_count |-> 0,
                  unchanged_count |-> 0])
    IN  IF acc.modified_count = 0 THEN CopyFile(d)
        ELSE IF UseDirectReplace(acc.modified)
        THEN DirectReplaceLoop(d, acc.modified, DOMAIN acc.modified)
        ELSE StructuralPackages(d, packages, acc.modified, 1, 0)

\* the directory with the candidate of entry x replaced by its payload
WithOriginalPayload(fs, x) ==
    { f \in fs : ~(f.dir = x[1] /\ f.name = FileName(ImageOf(x))) }
      \cup { [dir |-> x[1], name |-> FileName(ImageOf(x)), bytes |-> ImageOf(x).data] }

\* C12: a candidate whose sniffed type differs from the type of its entry
\* is rejected: the rebuild writes, under either strategy, the output it
\* writes when the candidate of that entry is the entry's own payload.
C12_TypeMismatchRejected ==
    (pc = "done" /\ original_packages # << >>)
    => /\ new_data = RebuildOutput(data, pkg_dirs, files)
       /\ \A x \in Entries :
            CandidateRejected(x)
            => /\ ImageOf(x).absolute_offset \in DOMAIN modified_images
                  => modified_images[ImageOf(x).absolute_offset].original_image
                       # ImageOf(x)
               /\ new_data = RebuildOutput(data, pkg_dirs, WithOriginalPayload(files, x))

C12_Witness ==
    /\ pc = "done"
    /\ strategy = "structural"
    /\ \E x \in Entries : CandidateRejected(x)
    /\ \E x \in Entries :
         /\ CandidateDiffers(x)
         /\ Len(CandidateOf(x)) > ImageOf(x).size
    /\ new_data # data

\* the loop of _create_msi_binary_with_structure and of _create_msi_binary
\* from the i-th file (0-based) on
RECURSIVE EmitFilesB(_, _, _, _)
EmitFilesB(structure_info, image_files, i, out) ==
    IF i >= Len(image_files) THEN [result |-> "True", out |-> out]
    ELSE LET image_data == image_files[i + 1].bytes
             header == HeaderFor(structure_info, i, image_data)
         IN  IF header.raised THEN [result |-> "False", out |-> out]
             ELSE EmitFilesB(structure_info, image_files, i + 1,
                             out \o header.bytes \o image_data)

\* what repack_from_directory returns and writes for an existing input
\* directory
RepackFromDirectory(host, original_file, analysis, input_dir, fs, metadata) ==
    LET modified == IF input_dir = "pack"
                    THEN _detect_modified_images(fs, host, analysis)
                    ELSE _detect_modified_images_simple(fs, host)
        image_files == IF input_dir = "pack" THEN SortFilesB(fs)
                       ELSE SortFilesB(GlobSupported(fs))
        structure_info == IF input_dir = "pack"
                          THEN StructureInfoFor(analysis, metadata)
                          ELSE NoStructure
        too_few == IF input_dir = "pack" THEN Len(image_files) < 2
                   ELSE image_files = << >>
    IN  IF original_file /\ DOMAIN modified = {}
        THEN [result |-> "True", out |-> host]
        ELSE IF too_few THEN [result |-> "False", out |-> << >>]
        ELSE EmitFilesB(structure_info, image_files, 0, << >>)

\* the payload of a decoded entry of the host
PayloadOfEntryB(entry) ==
    Slice(msi_host, entry.image_data_offset,
          entry.image_data_offset + entry.image_data_size)

\* the candidate files of a decoded entry
CandidatesB(entry) == { f \in msi_files : f.nr = entry.index }

\* the directory with candidate f replaced by the payload of its entry
WithOriginalPayloadB(f, entry) ==
    (msi_files \ { f }) \cup { [f EXCEPT !.bytes = PayloadOfEntryB(entry)] }

\* the candidate f of an entry is sniffed as another type than the entry
RetypedB(f, entry) == _detect_image_type(f.bytes) # entry.image_type

\* C13: repack_from_directory rejects a candidate whose sniffed type differs
\* from the detected type of its entry: result and output are those of the
\* same call with that candidate replaced by the entry's payload.
C13_TypeMismatchRejectedB ==
    (msi_pc = "done" /\ msi_input_dir # "missing")
    => LET entries == DecodedEntries(msi_host)
       IN  \A k \in 1..Len(entries) :
             \A f \in CandidatesB(entries[k]) :
                RetypedB(f, entries[k])
                => << msi_result, msi_out >>
                     = LET r == RepackFromDirectory(msi_host, msi_original_file,
                                  msi_analysis, msi_input_dir,
                                  WithOriginalPayloadB(f, entries[k]), msi_metadata)
                       IN  << r.result, r.out >>

\* the run ends with what the function of repack_from_directory computes
RepackAgreesB ==
    (msi_pc = "done" /\ msi_input_dir # "missing")
    => LET r == RepackFromDirectory(msi_host, msi_original_file, msi_analysis,
                                    msi_input_dir, msi_files, msi_metadata)
       IN  msi_result = r.result /\ msi_out = r.out

\* the payload of entry x as a scan of the output reads it back
PayloadInOutput(x) ==
    LET out == detect_asus_packer_format(new_data)
    IN  IF x[1] <= Len(out) /\ x[2] <= Len(out[x[1]].images)
        THEN out[x[1]].images[x[2]].data
        ELSE << -1 >>

\* C14: an entry without a candidate file, or in a package without a
\* directory, keeps its original payload in the output, and the rebuild
\* returns True whatever the other entries are.
C14_MissingCandidateKept ==
    (pc = "done" /\ original_packages # << >>)
    => /\ result = "True"
       /\ \A x \in Entries :
            ~HasCandidate(x) => PayloadInOutput(x) = ImageOf(x).data

\* the payload the output owes to a decoded entry: its candidate when one
\* is present, its original payload otherwise
OwedPayloadB(entry) ==
    IF CandidatesB(entry) # {}
    THEN (CHOOSE f \in CandidatesB(entry) : TRUE).bytes
    ELSE PayloadOfEntryB(entry)

\* out is made of one record per entry from the k-th on, each a header of
\* HEADER_SIZE bytes followed by the payload owed to the entry
RECURSIVE RecordsFromB(_, _, _, _)
RecordsFromB(out, pos, entries, k) ==
    IF k > Len(entries) THEN pos = Len(out)
    ELSE LET p == OwedPayloadB(entries[k])
             start == pos + HEADER_SIZE
         IN  /\ start + Len(p) <= Len(out)
             /\ Slice(out, pos, pos + 4) = Signature4
             /\ Slice(out, start, start + Len(p)) = p
             /\ RecordsFromB(out, start + Len(p), entries, k + 1)

SomeCandidateAbsentB ==
    \E k \in 1..Len(DecodedEntries(msi_host)) :
       CandidatesB(DecodedEntries(msi_host)[k]) = {}

\* C15: when candidates are absent the repack still returns True and its
\* output holds one (header, payload) record for every decoded entry of the
\* host, in the original order, an entry without candidate with its
\* original payload.
C15_MissingCandidateKeptB ==
    (msi_pc = "done" /\ msi_input_dir # "missing" /\ SomeCandidateAbsentB)
    => /\ msi_result = "True"
       /\ RecordsFromB(msi_out, 0, DecodedEntries(msi_host), 1)

\* modified_images holds the record of entry x with its candidate
RecordedModified(x) ==
    \E o \in DOMAIN modified_images :
       /\ o = ImageOf(x).absolute_offset
       /\ modified_images[o].original_image = ImageOf(x)
       /\ modified_images[o].package_idx = x[1]
       /\ modified_images[o].new_data = CandidateOf(x)
       /\ modified_images[o].size_diff = Len(CandidateOf(x)) - ImageOf(x).size

\* C16: after change detection an entry with a candidate is recorded as
\* Modified, with size_delta = len(candidate) - declared_size, iff its
\* candidate differs from its payload and has its type (so an entry whose
\* candidate equals its payload is Unchanged); modified_images holds no
\* other entry and exactly one record per Modified entry.
C16_ChangeDetection ==
    (pc \notin { "start", "detect" } /\ original_packages # << >>)
    => /\ \A x \in Entries :
            HasCandidate(x) => (RecordedModified(x) <=> CandidateDiffers(x))
       /\ \A o \in DOMAIN modified_images :
            \E x \in Entries : CandidateDiffers(x) /\ ImageOf(x).absolute_offset = o
       /\ Cardinality(DOMAIN modified_images)
            = Cardinality({ x \in Entries : CandidateDiffers(x) })
       /\ modified_count = Cardinality({ x \in Entries : CandidateDiffers(x) })

\* the file _detect_modified_images compares with an analysis entry holds
\* the payload of that entry
CandidateEqualsPayloadB(entry) ==
    /\ CandidateExt(msi_files, entry) # ""
    /\ ReadFileB(msi_files, entry.index, entry.offset, CandidateExt(msi_files, entry))
         = Slice(msi_host, entry.image_data_offset,
                 entry.image_data_offset + entry.image_data_size)

\* C17: _detect_modified_images classifies a candidate whose bytes equal
\* the payload of its entry, the image_data_size bytes after the 12-byte
\* header, as Unchanged: the entry is not in the returned set.
C17_EqualIsUnchangedB ==
    (msi_pc # "start" /\ msi_original_file /\ msi_input_dir = "pack")
    => /\ msi_modified = _detect_modified_images(msi_files, msi_host, msi_analysis)
       /\ \A k \in 1..Len(msi_analysis.msi_entries) :
            CandidateEqualsPayloadB(msi_analysis.msi_entries[k])
            => msi_analysis.msi_entries[k].index \notin DOMAIN msi_modified

\* number of back-to-back records, each a 12-byte header with the 4-byte
\* signature and its declared payload, that fill d from pos to its end;
\* -1 when d is not made of such records
RECURSIVE CountRecordsB(_, _)
CountRecordsB(d, pos) ==
    IF pos = Len(d) THEN 0
    ELSE IF pos + HEADER_SIZE > Len(d) THEN -1
    ELSE IF Slice(d, pos, pos + 4) # Signature4 THEN -1
    ELSE LET size == UnpackLE32(Slice(d, pos + 8, pos + 12))
             rest == IF pos + HEADER_SIZE + size > Len(d) THEN -1
                     ELSE CountRecordsB(d, pos + HEADER_SIZE + size)
         IN  IF rest = -1 THEN -1 ELSE 1 + rest

\* C18: _find_msi_entries records one entry per 12-byte header with the
\* 4-byte signature whose payload fits, with payload start = cursor + 12
\* and size = the size field, and resumes at the end of the payload: a
\* buffer of k back-to-back entries yields k entries in physical order.
C18_ScannerFindsEntriesB ==
    LET entries == _find_msi_entries(msi_host)
    IN  CountRecordsB(msi_host, 0) >= 0
        => /\ Len(entries) = CountRecordsB(msi_host, 0)
           /\ \A k \in 1..Len(entries) :
                /\ entries[k].index = k - 1
                /\ entries[k].offset
                     = (IF k = 1 THEN 0
                        ELSE entries[k - 1].image_data_offset
                               + entries[k - 1].image_data_size)
                /\ entries[k].image_data_offset = entries[k].offset + HEADER_SIZE
                /\ entries[k].image_data_size
                     = UnpackLE32(Slice(msi_host, entries[k].offset + 8,
                                        entries[k].offset + 12))

\* h is a 12-byte header: signature, sector, layer, image number, reserved
\* and the little-endian payload length
IsHeaderB(h, sector, layer, image_number, reserved, size) ==
    /\ ~h.raised
    /\ h.bytes = Signature4 \o << sector, layer, image_number, reserved >>
                   \o PackLE32(size)

\* the header written for the i-th emitted file (0-based) is well formed,
\* and echoes the structure information of the entry when there is one
EmittedHeaderOkB(i) ==
    LET image_data == msi_image_files[i + 1].bytes
        h == HeaderFor(msi_structure_info, i, image_data)
    IN  IF msi_structure_info.present /\ i < Len(msi_structure_info.entries)
        THEN LET e == msi_structure_info.entries[i + 1]
             IN  IsHeaderB(h, e.sector, e.layer, e.image_number, e.reserved,
                           Len(image_data))
        ELSE IsHeaderB(h, 0, 0, i, 0, Len(image_data))

\* the header made from the original header of a decoded entry echoes it
OriginalHeaderOkB(entry) ==
    IsHeaderB(_create_msi_header_from_original(entry.header, entry.image_data_size),
              entry.header.sector, entry.header.layer, entry.header.image_number,
              entry.header.reserved, entry.image_data_size)

\* C19: every header the format B repacker writes is 12 bytes (signature,
\* sector, layer, image number, reserved, payload length), echoes the four
\* bytes of the original entry when it is known, and is followed by the
\* payload alone, so that the output is as long as the reported total.
C19_HeaderEmissionB ==
    msi_pc \in { "emit", "done" }
    => /\ \A i \in 0..(Len(msi_image_files) - 1) : EmittedHeaderOkB(i)
       /\ \A k \in 1..Len(DecodedEntries(msi_host)) :
            OriginalHeaderOkB(DecodedEntries(msi_host)[k])
       /\ (msi_image_files # << >> /\ msi_i = Len(msi_image_files))
            => Len(msi_out) = msi_total_size

\* the positions of the host where the 32-byte container signature stands
SignaturePositions ==
    { p \in 0..(Len(data) - 32) : Slice(data, p, p + 32) = AsusSignature }

\* the record at the cursor where the collection of container i stopped
\* declares a payload that ends beyond the buffer
StoppedByBounds(i) ==
    LET head == PackageEnd(i)
    IN  /\ head + 8 <= Len(data)
        /\ UnpackLE32(Slice(data, head, head + 4)) # 0
        /\ UnpackLE32(Slice(data, head + 4, head + 8)) # 0
        /\ head + UnpackLE32(Slice(data, head + 4, head + 8))
             + UnpackLE32(Slice(data, head, head + 4)) > Len(data)

C21_EntryIdentity ==
    /\ (pc \notin { "idle", "start", "scan" } /\ original_packages # << >>)
       => \A i \in 1..Len(original_packages) :
             \A j \in 1..Len(original_packages[i].images) :
                LET image == original_packages[i].images[j]
                IN  /\ image.number = j - 1
                    /\ FileName(image)[1] = image.number
                    /\ FileName(image)[2] = image.absolute_offset
                    /\ image.data = Slice(data, image.absolute_offset,
                                          image.absolute_offset + image.size)
    /\ (msi_pc \notin { "idle", "start", "scan" } /\ msi_original_file
          /\ msi_input_dir = "pack")
       => \A k \in 1..Len(msi_analysis.msi_entries) :
             LET entry == msi_analysis.msi_entries[k]
             IN  /\ entry.index = k - 1
                 /\ CandidateExt(msi_files, entry) # ""
                      <=> \E f \in msi_files :
                             f.nr = entry.index /\ f.off = entry.image_data_offset

\* the size rule of the BMP classification, for the span of d starting at
\* offset
BmpRule(d, offset) ==
    /\ offset + 6 <= Len(d)
    /\ BmpSizeOk(d, offset, UnpackLE32(Slice(d, offset + 2, offset + 6)))

\* C22 (analyzer): every span that analyze_embedded_files reports as a BMP
\* starts with BM and declares a size of 100 bytes to 50 MiB that ends
\* inside the buffer.
C22_AnalyzerBmpRule ==
    an_pc = "done" =>
        \A k \in 1..Len(an_embedded) :
            an_embedded[k].type = "BMP Image" =>
                /\ Slice(an_data, an_embedded[k].start, an_embedded[k].start + 2)
                     = << 66, 77 >>
                /\ BmpRule(an_data, an_embedded[k].start)

\* C22: a span starting with BM is classified as BMP only if the
\* little-endian 32-bit size at offset+2 is between 100 bytes and 50 MiB and
\* offset + size lies inside the buffer; this must hold for the spans the
\* analyzer reports and for the payloads the container scanner classifies.
C22_BmpSniffing ==
    /\ C22_AnalyzerBmpRule
    /\ (pc \notin { "idle", "start", "scan" } =>
          \A i \in 1..Len(original_packages) :
            \A j \in 1..Len(original_packages[i].images) :
                original_packages[i].images[j].type = "bmp" =>
                    BmpRule(data, original_packages[i].images[j].absolute_offset))

\* the 13 bytes after the first IHDR chunk name at or after png_start, or
\* fewer when the buffer ends or no such name exists
IhdrPayload(d, png_start) ==
    IF FindBytes(d, IhdrName, png_start) = -1 THEN << >>
    ELSE Slice(d, FindBytes(d, IhdrName, png_start) + 4,
                  FindBytes(d, IhdrName, png_start) + 17)

\* C23: for every PNG found, the header query yields the width and height
\* (big-endian 32-bit), the bit depth and the color type of the IHDR payload
\* when the chunk name is followed by 13 bytes, and yields nothing exactly
\* when it is not.
C23_PngHeaderQuery ==
    an_pc = "done" =>
        \A k \in 1..Len(an_embedded) :
            an_embedded[k].type = "PNG Image" =>
                LET payload == IhdrPayload(an_data, an_embedded[k].start)
                IN  IF Len(payload) = 13
                    THEN /\ an_png[k].found
                         /\ an_png[k].width = UnpackBE32(SubSeq(payload, 1, 4))
                         /\ an_png[k].height = UnpackBE32(SubSeq(payload, 5, 8))
                         /\ an_png[k].bit_depth = payload[9]
                         /\ an_png[k].color_type = payload[10]
                    ELSE ~an_png[k].found

\* the scan of format A has produced original_packages
ScannedA == pc = "scanned" \/ original_packages # << >>

\* the acceptance condition of a record at cursor head, as the contract
\* states it
EntryAcceptable(d, head) ==
    /\ head + 8 <= Len(d)
    /\ LET size == UnpackLE32(Slice(d, head, head + 4))
           rel_offset == UnpackLE32(Slice(d, head + 4, head + 8))
       IN  /\ size # 0
           /\ rel_offset # 0
           /\ Slice(d, head + rel_offset - 16, head + rel_offset) = ExpectedPattern
           /\ head + rel_offset + size <= Len(d)

\* the cursor after the record of image
CursorAfter(image) ==
    image.metadata_offset + 32 + image.size + ((4 - (image.size % 4)) % 4)

\* the cursor at which entry j of container i was decoded, for j up to the
\* number of entries, and the cursor at which the entry loop ended, for j
\* one more
CursorOf(i, j) ==
    IF j = 1 THEN original_packages[i].header_end
    ELSE CursorAfter(original_packages[i].images[j - 1])

\* C24: at every cursor of the entry loop an entry is appended iff 8 bytes
\* are readable, size and rel_offset are not 0, the 16 bytes before the
\* payload equal the sentinel and the payload ends inside the buffer; the
\* loop ends at the first cursor where this fails and keeps the entries
\* decoded before; no recorded entry has other bytes than the sentinel before
\* its payload.
C24_EntryAcceptance ==
    ScannedA =>
        \A i \in 1..Len(original_packages) :
            LET images == original_packages[i].images
            IN  /\ \A j \in 1..Len(images) :
                     /\ images[j].metadata_offset = CursorOf(i, j)
                     /\ EntryAcceptable(data, CursorOf(i, j))
                     /\ images[j].size
                          = UnpackLE32(Slice(data, CursorOf(i, j), CursorOf(i, j) + 4))
                     /\ images[j].absolute_offset
                          = CursorOf(i, j) + UnpackLE32(Slice(data, CursorOf(i, j) + 4,
                                                              CursorOf(i, j) + 8))
                     /\ Slice(data, images[j].absolute_offset - 16,
                              images[j].absolute_offset) = ExpectedPattern
                /\ ~EntryAcceptable(data, CursorOf(i, Len(images) + 1))

\* a container that kept its first entry and whose loop ended at a record
\* that is refused for its sentinel alone
C24_Witness ==
    /\ pc = "scanned"
    /\ \E i \in 1..Len(original_packages) :
         LET head == CursorOf(i, Len(original_packages[i].images) + 1)
             size == UnpackLE32(Slice(data, head, head + 4))
             rel_offset == UnpackLE32(Slice(data, head + 4, head + 8))
         IN  /\ original_packages[i].images # << >>
             /\ head + 8 <= Len(data)
             /\ size # 0
             /\ rel_offset # 0
             /\ head + rel_offset + size <= Len(data)
             /\ Slice(data, head + rel_offset - 16, head + rel_offset) # ExpectedPattern

\* the cursor at which the entry loop of container i ended
HeadFinal(i) == CursorOf(i, Len(original_packages[i].images) + 1)

\* the signature positions of the host at or after position
SignaturesFrom(position) == { p \in SignaturePositions : p >= position }

\* C25: every entry after the first is decoded at the cursor of the entry
\* before it plus 32 + size + (4 - size mod 4) mod 4; the total_size of a
\* container is the final cursor minus its start; the search for the next
\* container resumes at the final cursor, so the next container is the
\* leftmost signature at or after it and no signature at or after the final
\* cursor of the last container is missed; the containers are in strictly
\* ascending order of their starts and the span of each ends at or before
\* the start of the next.
C25_CursorAccounting ==
    ScannedA =>
        /\ \A i \in 1..Len(original_packages) :
             LET p == original_packages[i]
             IN  /\ \A j \in 1..Len(p.images) : p.images[j].metadata_offset = CursorOf(i, j)
                 /\ p.total_size = HeadFinal(i) - p.header_offset
                 /\ p.header_offset \in SignaturePositions
                 /\ p.header_end = p.header_offset + 32
                 /\ IF i < Len(original_packages)
                    THEN /\ SignaturesFrom(HeadFinal(i)) # {}
                         /\ original_packages[i + 1].header_offset
                              = SetMin(SignaturesFrom(HeadFinal(i)))
                         /\ p.header_offset < original_packages[i + 1].header_offset
                         /\ p.header_offset + p.total_size
                              <= original_packages[i + 1].header_offset
                    ELSE SignaturesFrom(HeadFinal(i)) = {}
        /\ (original_packages = << >>) = (SignaturePositions = {})
        /\ original_packages # << >> =>
             original_packages[1].header_offset = SetMin(SignaturePositions)

\* two containers, the first ended by a record it had to refuse, the
\* second found after bytes that belong to no container
C25_Witness ==
    /\ pc = "scanned"
    /\ Len(original_packages) = 2
    /\ original_packages[1].images # << >>
    /\ original_packages[2].images # << >>
    /\ HeadFinal(1) + 8 <= Len(data)
    /\ HeadFinal(1) < original_packages[2].header_offset
    /\ original_packages[1].images[1].size % 4 # 0

\* the payload a rebuild owes to entry x: its replacement when the entry is
\* Modified, its original payload otherwise
OwedPayload(x) == IF CandidateDiffers(x) THEN CandidateOf(x) ELSE ImageOf(x).data

\* C26: scanning the output of a Structural Rebuild yields as many
\* containers as the host has and, per container, as many entries in the
\* same order; the payload of each is its replacement if the entry was
\* Modified and its original payload otherwise, and its declared size is the
\* length of that payload.
C26_ScanAfterRebuild ==
    (pc = "done" /\ strategy = "structural")
    => LET out == detect_asus_packer_format(new_data)
       IN  /\ Len(out) = Len(original_packages)
           /\ \A i \in 1..Len(original_packages) :
                i <= Len(out) =>
                  /\ Len(out[i].images) = Len(original_packages[i].images)
                  /\ \A j \in 1..Len(original_packages[i].images) :
                       j <= Len(out[i].images) =>
                         /\ out[i].images[j].data = OwedPayload(<< i, j >>)
                         /\ out[i].images[j].size = Len(OwedPayload(<< i, j >>))

\* C27: every container returned by the scan ends inside the host buffer,
\* header_offset + total_size <= length, so the position from which a
\* Structural Rebuild copies the trailing bytes never lies past the end of
\* the buffer.
C27_SpanInsideBuffer ==
    /\ ScannedA => \A i \in 1..Len(original_packages) : PackageEnd(i) <= Len(data)
    /\ (pc = "done" /\ strategy = "structural") => current_pos <= Len(data)

\* C28: in every decoded container the payload of each entry starts at or
\* after its own metadata cursor + 32, ends at or before the cursor of the
\* next entry (the final cursor for the last one) and lies inside the span
\* of the container; no two entries have the same absolute_offset, and
\* every Modified entry has a record of its own in modified_images.
C28_EntriesDisjoint ==
    /\ ScannedA =>
         \A i \in 1..Len(original_packages) :
            LET p == original_packages[i]
            IN  /\ \A j \in 1..Len(p.images) :
                     /\ p.images[j].absolute_offset >= p.images[j].metadata_offset + 32
                     /\ p.images[j].absolute_offset + p.images[j].size <= CursorOf(i, j + 1)
                     /\ p.header_offset <= p.images[j].absolute_offset
                     /\ p.images[j].absolute_offset + p.images[j].size <= PackageEnd(i)
                /\ \A j, k \in 1..Len(p.images) :
                     j # k => p.images[j].absolute_offset # p.images[k].absolute_offset
    /\ pc = "done" => \A x \in Entries : CandidateDiffers(x) => RecordedModified(x)

\* both scans have returned
BothScanned == pc = "scanned" /\ msi_pc = "scanned"

\* the cursors move forward: the entry cursor on every appended entry, the
\* search position on every recorded container, the offset of the format B
\* scan on every iteration
CursorsAdvance ==
    /\ EntryStep => scan_head' > scan_head
    /\ EntryBreak => scan_position' > scan_position
    /\ StepB => scan_offset' > scan_offset

\* C29: both scanners terminate on every buffer: the entry cursor strictly
\* increases on every accepted entry, the search position strictly increases
\* on every container, the offset of the format B scan strictly increases on
\* every iteration, also at an entry that declares 0 bytes, and both scans
\* eventually return.
C29_ScannersTerminate == [][CursorsAdvance]_vars /\ <>BothScanned

\* stepping through the loops gives what the scans return
StepAgrees ==
    BothScanned =>
        /\ original_packages = detect_asus_packer_format(data)
        /\ msi_analysis.msi_entries = _find_msi_entries(msi_host)

\* both scans have returned, the first on a host of two containers with
\* entries, the second on a host whose first entry declares 0 bytes
C29_Witness ==
    /\ BothScanned
    /\ Len(original_packages) = 2
    /\ original_packages[1].images # << >>
    /\ original_packages[2].images # << >>
    /\ Slice(msi_host, 8, 12) = << 0, 0, 0, 0 >>
    /\ scan_offset >= Len(msi_host) - HEADER_SIZE

\* the answer to the file prompt names a valid target file
ValidFileSupplied == validate_file_path(get_file_path_input(main_user_file, "default_file"))

\* C30: when repack_mode is entered from the menu, without a file path,
\* and the user supplies a valid target file and an existing extraction
\* directory, the run reaches run_repack on that target and does not end in
\* the error branch before the repack starts.
C30_MenuRepackReachesRun ==
    (/\ main_pc = "done"
     /\ main_entry = "menu"
     /\ ValidFileSupplied
     /\ PathExists(main_user_dir))
    => /\ main_called
       /\ main_target = get_file_path_input(main_user_file, "default_file")
       /\ ~main_raised

====
